---- MODULE Spec2Model ----
(***************************************************************************)
(* Model of the gophermart loyalty backend: the accrual poller             *)
(* (controllers.ProcessOrders), the money primitives orders.Accrue and     *)
(* users.Withdraw, and the three tables they touch (users, orders,         *)
(* ledger) behind db.Transaction.                                          *)
(*                                                                         *)
(* The database is PostgreSQL at READ COMMITTED.  A statement issued on    *)
(* the pool handle (runEnv.DB(), pg.tx = nil) autocommits: its effect is   *)
(* applied to the committed tables at once.  A statement issued on the     *)
(* handle that pg.Transaction passes to its callback is buffered in tx[p]  *)
(* and holds the row lock until Commit or Rollback.                        *)
(*                                                                         *)
(* Money is NUMERIC(8,2); the model counts in whole units.                 *)
(***************************************************************************)
EXTENDS Integers, Sequences, FiniteSets, TLC

\* ------------------------------------------------------------------ bounds
\* The environment (accrual service replies, HTTP withdraw requests) produces
\* an input that starts a money movement only while the ledger, with the rows
\* the calls in progress may still append, is shorter than this.
MaxLedger == 2
\* Largest balance the user starts with where two withdrawals race.
MaxBalance == 2
\* Largest number of seconds the accrual service puts in a Retry-After header.
MaxRetryAfter == 2
\* Completed passes of the poller counted per order; later passes still run.
MaxPasses == 3

\* ------------------------------------------------------------ value spaces
\* the order number "-1" of the tests: it does not match ^[0-9]+$
BadNumber == 0 - 1
\* SQL NULL / a nil *decimal.Decimal is the empty sequence, a value v is <<v>>
NULL == << >>
Some(v) == <<v>>
Val(a) == a[1]

\* users.id values the serial can hand out
UserIds == {1}
\* order numbers users submit
OrderNumbers == {1, 2}
\* order numbers named in withdraw requests ("-1" goes unvalidated to the regexp)
WithdrawNumbers == {2, BadNumber}
\* accrual values the accrual service may put in a 200 body
AccrualValues == {NULL, Some(0), Some(1), Some(2)}
\* sums of withdraw requests
Sums == {0, 1, 2}

StatusNew == "NEW"
StatusRegistered == "REGISTERED"
StatusProcessing == "PROCESSING"
StatusInvalid == "INVALID"
StatusProcessed == "PROCESSED"
Statuses == {StatusNew, StatusRegistered, StatusProcessing, StatusInvalid, StatusProcessed}
\* statuses the accrual service puts in the 200 bodies of the model.  The code
\* only compares the body's status with the row's and stores it, so NEW and
\* REGISTERED in a body behave as PROCESSING does.
ReplyStatuses == {StatusProcessing, StatusInvalid, StatusProcessed}

TransactionDebit == "debit"
TransactionCredit == "credit"

ErrNil == "nil"
ErrDB == "DBError"
ErrNotNull == "NotNullViolation"
ErrNoSuchOrder == "ErrNoSuchOrder"
ErrNoSuchUser == "ErrNoSuchUser"
ErrInsufficientFunds == "ErrInsufficientFunds"
ErrRequestIsWrong == "ErrRequestIsWrong"
ErrNestedTransaction == "ErrNestedTransaction"
ErrOrderFormatIsWrong == "ErrOrderFormatIsWrong"
ErrOrderCreateFailure == "ErrOrderCreateFailure"
ErrOrderAlreadyExists == "ErrOrderAlreadyExists"
ErrOrderRegisteredByAnotherUser == "ErrOrderRegisteredByAnotherUser"
\* an error of the callback's own
ErrWork == "work failed"
\* no call has returned yet
Pending == "pending"

Poller == "poller"
\* tasks of the HTTP server that run handlerUserWithdraw
Handlers == {"h1", "h2"}
Procs == {Poller} \cup Handlers

\* --------------------------------------------------------------- variables
VARIABLES
    users,      \* committed table users:  id -> [balance, withdrawn]
    orders,     \* committed table orders: number -> [user_id, status, accrual]
    ledger,     \* committed table ledger: sequence of rows, id = position
    tx,         \* per task: the transaction it has open and its uncommitted users-row write
    pc,         \* per task: position in its code
    orderList,  \* poller: rows of *orderList not yet iterated in this pass
    order,      \* poller: the loop variable `order` handed to Accrue
    req,        \* handler: arguments of the Withdraw in progress
    result,     \* per task: error value returned by the last Accrue / Withdraw
    hist,       \* per task: what the call in progress saw and did (for the properties)
    poll,       \* poller: its sleeps and what the accrual service told it in this pass
    call        \* per HTTP task: the db / orders / controllers call it is making

\* the tables and the tasks
data == <<users, orders, ledger, tx, pc, orderList, order, req, result, hist>>

vars == <<users, orders, ledger, tx, pc, orderList, order, req, result, hist, poll, call>>

ZeroUser == [balance |-> 0, withdrawn |-> 0]
NoTx == [open |-> FALSE, user |-> 0, row |-> ZeroUser]
NoOrder == [number |-> 0, user_id |-> 0, status |-> StatusNew, accrual |-> NULL]
NoReq == [userID |-> 0, orderNumber |-> 0, sum |-> 0]
NoHist == [preOrder |-> << >>, preUser |-> << >>, balance |-> NULL, added |-> {}]
\* &Order{}, the value Create and GetByNumber return when no row came back
EmptyOrder == [number |-> << >>, user_id |-> 0, status |-> "", accrual |-> NULL, uploaded_at |-> 0]
\* an HTTP task that is making no call.
\*   number, userID  arguments of orders.Create / GetByNumber / RegisterOrder
\*   returned        the *Order the call returned
\*   fn              what the callback given to Transaction returned
\*   inner           what a Transaction called on the callback's handle returned
\*   innerRan        the function given to that inner Transaction was run
\*   after           a statement was executed on the handle after the inner call
\*   code            the HTTP status the handler answered with, 0 before it did
\*   login, password the fields of the JSON body of a register / login request
\*   cookie          the auth cookie the handler set in its answer, NULL if none
\*   wrote           the balance the callback's last UPDATE on its handle set
\*   seen            what the callback's SELECT on its handle returned since then
\*   outside         what the task's SELECT on the Store handle returned
NoCall == [number |-> << >>, userID |-> 0, returned |-> EmptyOrder,
           fn |-> Pending, inner |-> Pending, innerRan |-> FALSE, after |-> FALSE,
           code |-> 0, login |-> "", password |-> "", cookie |-> NULL,
           wrote |-> NULL, seen |-> NULL, outside |-> NULL]
\* what http.Get and the reading of the answer gave the poller:
\*   transportError  http.Get, io.ReadAll or Body.Close returned an error
\*   code            res.StatusCode
\*   retryAfter      res.Header.Get("Retry-After"): "" when the header is absent
\*   parses          json.Unmarshal of the body into accrualResponse succeeds
\*   order, status, accrual   the fields of the parsed body
NoReply == [transportError |-> FALSE, code |-> 0, retryAfter |-> "", parses |-> FALSE,
            order |-> << >>, status |-> "", accrual |-> NULL]
\* the poller as `go ProcessOrders()` starts it: in the time.Sleep(time.Second)
\* at the top of its loop.
\*   wait       seconds the sleeps in progress still last at least
\*   quiet      seconds left of the last Retry-After the service asked for
\*   retryAfter the Retry-After of the reply handled last, NULL if it had none
\*   backoff    a 429 with a parseable Retry-After was received in this pass
\*   passes     per order number: passes completed since the order was stored
\*   award      per order number: the accrual a service that always answers
\*              200 PROCESSED reports for it
\*   reply      the answer of the accrual service handled last
\*   polled     the number of the order that answer was for, 0 before any
NoPoll == [wait |-> 1, quiet |-> 0, retryAfter |-> NULL, backoff |-> FALSE,
           passes |-> [n \in OrderNumbers |-> 0], award |-> [n \in OrderNumbers |-> 0],
           reply |-> NoReply, polled |-> 0]

\* ------------------------------------------------------------ SQL helpers
\* (mutant) UPDATE statements that do not wait for the row lock
NeverLockedByOther(p, u) == FALSE

\* another open transaction holds the write lock on users row u
LockedByOther(p, u) == \E q \in Procs \ {p} : tx[q].open /\ tx[q].user = u

\* calls in progress that may still append a ledger row
InFlight ==
    Cardinality({p \in Procs : pc[p] \in {"a_update", "a_user", "a_ledger",
                                           "w_select", "w_update", "w_ledger"}})

\* SELECT sum(value) FROM ledger WHERE user_id = u AND operation = op
RECURSIVE SumSeq(_, _, _)
SumSeq(l, u, op) ==
    IF l = << >> THEN 0
    ELSE (IF Head(l).user_id = u /\ Head(l).operation = op THEN Head(l).value ELSE 0)
         + SumSeq(Tail(l), u, op)

\* (mutant) a statement that always reports one affected row
RowsAffectedOne(table, key) == 1

\* comTag.RowsAffected() of an UPDATE ... WHERE <primary key> = key
RowsAffected(table, key) == IF key \in DOMAIN table THEN 1 ELSE 0

\* (mutant) Withdraw without its balance.LessThan(*sum) test
NeverLessThan(a, b) == FALSE

\* decimal.Decimal.LessThan
LessThan(a, b) == a < b

\* ---------------------------------------------------------------- db.go
\* pg.Transaction, entry: conn.Begin succeeded, db.tx is set on the copy of the
\* handle that is passed to doWork
Begin(p) == tx' = [tx EXCEPT ![p] = [NoTx EXCEPT !.open = TRUE]]

\* pg.Transaction, doWork returned err: db.Rollback discards the buffered write
\* and releases the row lock; Transaction returns err
Rollback(p, err, next) ==
    /\ tx' = [tx EXCEPT ![p] = NoTx]
    /\ result' = [result EXCEPT ![p] = err]
    /\ pc' = [pc EXCEPT ![p] = next]

\* (mutant) a Commit that publishes nothing
CommitNothing(p) == users

\* tx.Commit succeeded: the buffered users row becomes the committed row
CommitUsers(p) ==
    IF tx[p].user \in DOMAIN users
    THEN [users EXCEPT ![tx[p].user] = tx[p].row]
    ELSE users

\* (mutant) the UPDATE users issued on the pool handle: committed at once,
\* outside the transaction
ExecUsersOnPool(p, u, row) ==
    /\ users' = [users EXCEPT ![u] = row]
    /\ UNCHANGED tx

\* an UPDATE users ... issued on the transaction handle `db` of the callback:
\* the new row is buffered in the transaction, the committed table is untouched
ExecUsersInTx(p, u, row) ==
    /\ tx' = [tx EXCEPT ![p] = [open |-> TRUE, user |-> u, row |-> row]]
    /\ UNCHANGED users

\* ------------------------------------------------------------- ledger
\* ledger.AddTransaction: INSERT INTO ledger ... issued on runEnv.DB(), the pool
\* handle, so the row is committed at once, whatever transaction the caller is in
AddTransaction(p, userID, orderNumber, operation, sum) ==
    /\ ledger' = Append(ledger, [user_id |-> userID, order_number |-> orderNumber,
                                 operation |-> operation, value |-> sum])
    /\ hist' = [hist EXCEPT ![p].added = @ \cup {Len(ledger) + 1}]

\* -------------------------------------------------------------- users
\* onlyDigitsRe = ^[0-9]+$
OnlyDigits(n) == n \in Nat

\* controllers.WithdrawFromUser: validates the request, then users.Withdraw,
\* which opens the transaction (conn.Begin)
WithdrawFromUser(p, userID, orderNumber, sum) ==
    /\ pc[p] = "idle"
    /\ req' = [req EXCEPT ![p] = [userID |-> userID, orderNumber |-> orderNumber, sum |-> sum]]
    /\ hist' = [hist EXCEPT ![p] = NoHist]
    /\ IF ~OnlyDigits(orderNumber) \/ ~(sum > 0)
       THEN /\ result' = [result EXCEPT ![p] = ErrRequestIsWrong]
            /\ pc' = [pc EXCEPT ![p] = "w_ret"]
            /\ UNCHANGED tx
       ELSE /\ result' = [result EXCEPT ![p] = Pending]
            /\ pc' = [pc EXCEPT ![p] = "w_select"]
            /\ Begin(p)
    /\ UNCHANGED <<users, orders, ledger, orderList, order>>

\* users.Withdraw: SELECT balance FROM users WHERE id = $1, then the
\* balance.LessThan(sum) test.  READ COMMITTED: the SELECT sees the committed row.
WithdrawSelect(p) ==
    /\ pc[p] = "w_select"
    /\ IF req[p].userID \notin DOMAIN users
       THEN /\ Rollback(p, ErrNoSuchUser, "w_ret")
            /\ UNCHANGED hist
       ELSE IF LessThan(users[req[p].userID].balance, req[p].sum)
       THEN /\ Rollback(p, ErrInsufficientFunds, "w_ret")
            /\ hist' = [hist EXCEPT ![p].balance = Some(users[req[p].userID].balance)]
       ELSE /\ pc' = [pc EXCEPT ![p] = "w_update"]
            /\ hist' = [hist EXCEPT ![p].balance = Some(users[req[p].userID].balance)]
            /\ UNCHANGED <<tx, result>>
    /\ UNCHANGED <<users, orders, ledger, orderList, order, req>>

\* (mutant) the UPDATE without `withdrawn = withdrawn + $1`
WithdrawRowBalanceOnly(row, sum) ==
    [balance |-> row.balance - sum, withdrawn |-> row.withdrawn]

\* the row UPDATE users SET balance = balance - $1, withdrawn = withdrawn + $1 writes
WithdrawRow(row, sum) ==
    [balance |-> row.balance - sum, withdrawn |-> row.withdrawn + sum]

\* (mutant) the UPDATE without its `AND balance >= $1`
WithdrawWhereNoGuard(row, sum) == TRUE

\* the `balance >= $1` of the UPDATE's WHERE
WithdrawWhere(row, sum) == row.balance >= sum

\* users.Withdraw: UPDATE users ... WHERE id = $2 AND balance >= $1 on the
\* transaction handle.  The statement waits for the row lock and evaluates its
\* WHERE on the row as committed when the lock is granted.
WithdrawUpdate(p) ==
    /\ pc[p] = "w_update"
    /\ ~LockedByOther(p, req[p].userID)
    /\ IF req[p].userID \in DOMAIN users /\ WithdrawWhere(users[req[p].userID], req[p].sum)
       THEN /\ ExecUsersInTx(p, req[p].userID, WithdrawRow(users[req[p].userID], req[p].sum))
            /\ hist' = [hist EXCEPT ![p].preUser = <<users[req[p].userID]>>]
            /\ pc' = [pc EXCEPT ![p] = "w_ledger"]
            /\ UNCHANGED result
       ELSE /\ Rollback(p, ErrInsufficientFunds, "w_ret")
            /\ UNCHANGED <<users, hist>>
    /\ UNCHANGED <<orders, ledger, orderList, order, req>>

\* users.Withdraw: ledger.GetEnv().AddTransaction(..., TransactionCredit, sum)
WithdrawLedger(p) ==
    /\ pc[p] = "w_ledger"
    /\ AddTransaction(p, req[p].userID, req[p].orderNumber, TransactionCredit, req[p].sum)
    /\ pc' = [pc EXCEPT ![p] = "w_commit"]
    /\ UNCHANGED <<users, orders, tx, orderList, order, req, result>>

\* pg.Transaction: doWork returned nil, tx.Commit succeeds
WithdrawCommit(p) ==
    /\ pc[p] = "w_commit"
    /\ users' = CommitUsers(p)
    /\ tx' = [tx EXCEPT ![p] = NoTx]
    /\ result' = [result EXCEPT ![p] = ErrNil]
    /\ pc' = [pc EXCEPT ![p] = "w_ret"]
    /\ UNCHANGED <<orders, ledger, orderList, order, req, hist>>

\* a statement of Withdraw (or conn.Begin, or tx.Commit) fails with a database
\* error (timeout of the context, lost connection): Transaction rolls back
WithdrawDBError(p) ==
    /\ pc[p] \in {"w_select", "w_update", "w_ledger", "w_commit"}
    /\ Rollback(p, ErrDB, "w_ret")
    /\ UNCHANGED <<users, orders, ledger, orderList, order, req, hist>>

\* handlerUserWithdraw maps the error to a status code and returns
WithdrawReturn(p) ==
    /\ pc[p] = "w_ret"
    /\ pc' = [pc EXCEPT ![p] = "idle"]
    /\ req' = [req EXCEPT ![p] = NoReq]
    /\ hist' = [hist EXCEPT ![p] = NoHist]
    /\ result' = [result EXCEPT ![p] = Pending]
    /\ UNCHANGED <<users, orders, ledger, tx, orderList, order>>

\* users.Create via controllers.CreateUser: INSERT INTO users (login, password);
\* id is a serial, balance and withdrawn default to 0
CreateUser ==
    /\ \E id \in UserIds \ DOMAIN users :
          /\ \A smaller \in UserIds : smaller < id => smaller \in DOMAIN users
          /\ users' = [u \in DOMAIN users \cup {id} |-> IF u = id THEN ZeroUser ELSE users[u]]
    /\ UNCHANGED <<orders, ledger, tx, pc, orderList, order, req, result, hist>>

\* ------------------------------------------------------------- orders
\* controllers.RegisterOrder -> orders.Create: INSERT INTO orders (number, user_id,
\* status) VALUES ($1, $2, 'NEW') ON CONFLICT DO NOTHING
RegisterOrder(number, userID) ==
    /\ orders' = IF number \in DOMAIN orders
                 THEN orders
                 ELSE [n \in DOMAIN orders \cup {number} |->
                          IF n = number
                          THEN [user_id |-> userID, status |-> StatusNew, accrual |-> NULL]
                          ELSE orders[n]]
    /\ UNCHANGED <<users, ledger, tx, pc, orderList, order, req, result, hist>>

\* the array bound to $1 of the poller's query
FinalStatuses == <<StatusInvalid, StatusProcessed>>

\* SQL `x != ANY(array)`: true when x differs from at least one element
NotEqualAny(x, arr) == \E i \in 1..Len(arr) : x # arr[i]

\* orders.GetList(ctx, "status != ANY($1)", "", {INVALID, PROCESSED})
GetList ==
    { [number |-> n, user_id |-> orders[n].user_id,
       status |-> orders[n].status, accrual |-> orders[n].accrual] :
      n \in {m \in DOMAIN orders : NotEqualAny(orders[m].status, FinalStatuses)} }

\* (mutant) the UPDATE orders buffered in a transaction that is rolled back:
\* the committed table is untouched
UpdateInTx(o) == orders

\* orders.Update: UPDATE orders SET status = $1, accrual = $2 WHERE number = $3,
\* issued on runEnv.DB(), the pool handle: committed at once
Update(o) ==
    IF o.number \in DOMAIN orders
    THEN [orders EXCEPT ![o.number] = [@ EXCEPT !.status = o.status, !.accrual = o.accrual]]
    ELSE orders

\* ------------------------------------------------------------- poller
\* ProcessOrders, top of the loop: the list query succeeds
ProcessOrdersGetList ==
    /\ pc[Poller] = "loop"
    /\ orderList' = GetList
    /\ pc' = [pc EXCEPT ![Poller] = "iter"]
    /\ UNCHANGED <<users, orders, ledger, tx, order, req, result, hist>>

\* ProcessOrders: the list query fails; `continue` restarts the loop
ProcessOrdersGetListError ==
    /\ pc[Poller] = "loop"
    /\ UNCHANGED data

\* ProcessOrders: the range over *orderList is exhausted
ProcessOrdersEndOfPass ==
    /\ pc[Poller] = "iter"
    /\ orderList = {}
    /\ pc' = [pc EXCEPT ![Poller] = "loop"]
    /\ UNCHANGED <<users, orders, ledger, tx, orderList, order, req, result, hist>>

\* (mutant) the poller without its `data.Status == order.Status` test
StatusAlwaysChanged(o, status) == TRUE

\* `if data.Status == order.Status { continue toNextOrder }` not taken
StatusChanged(o, status) == status # o.status

\* (mutant) an answered order ends the pass: the rest of the list is dropped
ProcessOrdersSkipRest(o) ==
    /\ pc[Poller] = "iter"
    /\ o \in orderList
    /\ orderList' = {}
    /\ UNCHANGED <<users, orders, ledger, tx, pc, order, req, result, hist>>

\* ProcessOrders, one order whose reply leads to `continue toNextOrder` before
\* Accrue: transport error, unreadable body, 429, 204 or another status, body
\* that does not parse, another order number in the body, unchanged status
ProcessOrdersSkip(o) ==
    /\ pc[Poller] = "iter"
    /\ o \in orderList
    /\ orderList' = orderList \ {o}
    /\ UNCHANGED <<users, orders, ledger, tx, pc, order, req, result, hist>>

\* ProcessOrders, one order answered 200 {order: o.number, status, accrual} with
\* status # o.Status: order.Status and order.Accrual are overwritten and
\* orders.Accrue is called, which opens the transaction
ProcessOrdersAccrue(o, status, accrual) ==
    /\ pc[Poller] = "iter"
    /\ o \in orderList
    /\ StatusChanged(o, status)
    /\ orderList' = orderList \ {o}
    /\ order' = [o EXCEPT !.status = status, !.accrual = accrual]
    /\ hist' = [hist EXCEPT ![Poller] =
                  [NoHist EXCEPT !.preOrder =
                     IF o.number \in DOMAIN orders THEN <<orders[o.number]>> ELSE << >>]]
    /\ result' = [result EXCEPT ![Poller] = Pending]
    /\ pc' = [pc EXCEPT ![Poller] = "a_update"]
    /\ Begin(Poller)
    /\ UNCHANGED <<users, orders, ledger, req>>

\* orders.Accrue: runEnv.Update(...) and the rowsAffected == 0 test
AccrueUpdate ==
    /\ pc[Poller] = "a_update"
    /\ orders' = Update(order)
    /\ IF RowsAffected(orders, order.number) # 0
       THEN /\ pc' = [pc EXCEPT ![Poller] = "a_user"]
            /\ UNCHANGED <<tx, result>>
       ELSE Rollback(Poller, ErrNoSuchOrder, "a_ret")
    /\ UNCHANGED <<users, ledger, orderList, order, req, hist>>

\* orders.Accrue: UPDATE users SET balance = balance + $1 WHERE id = $2 on the
\* transaction handle.  No row: rowsAffected = 0.  A NULL $1 makes the new
\* balance NULL, which the NOT NULL constraint of users.balance rejects.
AccrueUser ==
    /\ pc[Poller] = "a_user"
    /\ ~LockedByOther(Poller, order.user_id)
    /\ IF order.user_id \notin DOMAIN users
       THEN /\ Rollback(Poller, ErrNoSuchUser, "a_ret")
            /\ UNCHANGED <<users, hist>>
       ELSE IF order.accrual = NULL
       THEN /\ Rollback(Poller, ErrNotNull, "a_ret")
            /\ UNCHANGED <<users, hist>>
       ELSE /\ ExecUsersInTx(Poller, order.user_id,
                   [users[order.user_id] EXCEPT !.balance = @ + Val(order.accrual)])
            /\ hist' = [hist EXCEPT ![Poller].preUser = <<users[order.user_id]>>]
            /\ pc' = [pc EXCEPT ![Poller] = "a_ledger"]
            /\ UNCHANGED result
    /\ UNCHANGED <<orders, ledger, orderList, order, req>>

\* orders.Accrue: ledger.GetEnv().AddTransaction(..., TransactionDebit, o.Accrual)
AccrueLedger ==
    /\ pc[Poller] = "a_ledger"
    /\ AddTransaction(Poller, order.user_id, order.number, TransactionDebit, Val(order.accrual))
    /\ pc' = [pc EXCEPT ![Poller] = "a_commit"]
    /\ UNCHANGED <<users, orders, tx, orderList, order, req, result>>

\* pg.Transaction: doWork returned nil, tx.Commit succeeds
AccrueCommit ==
    /\ pc[Poller] = "a_commit"
    /\ users' = CommitUsers(Poller)
    /\ tx' = [tx EXCEPT ![Poller] = NoTx]
    /\ result' = [result EXCEPT ![Poller] = ErrNil]
    /\ pc' = [pc EXCEPT ![Poller] = "a_ret"]
    /\ UNCHANGED <<orders, ledger, orderList, order, req, hist>>

\* a statement of Accrue (or conn.Begin, or tx.Commit) fails with a database
\* error (timeout of the context, lost connection): Transaction rolls back
AccrueDBError ==
    /\ pc[Poller] \in {"a_update", "a_user", "a_ledger", "a_commit"}
    /\ Rollback(Poller, ErrDB, "a_ret")
    /\ UNCHANGED <<users, orders, ledger, orderList, order, req, hist>>

\* (mutant) a poller that returns from ProcessOrders when Accrue fails
AccrueReturnOrStop ==
    /\ pc[Poller] = "a_ret"
    /\ pc' = [pc EXCEPT ![Poller] = IF result[Poller] = ErrNil THEN "iter" ELSE "stopped"]
    /\ order' = NoOrder
    /\ hist' = [hist EXCEPT ![Poller] = NoHist]
    /\ result' = [result EXCEPT ![Poller] = Pending]
    /\ UNCHANGED <<users, orders, ledger, tx, orderList, req>>

\* ProcessOrders: the switch on Accrue's error; every branch goes on to the
\* next order
AccrueReturn ==
    /\ pc[Poller] = "a_ret"
    /\ pc' = [pc EXCEPT ![Poller] = "iter"]
    /\ order' = NoOrder
    /\ hist' = [hist EXCEPT ![Poller] = NoHist]
    /\ result' = [result EXCEPT ![Poller] = Pending]
    /\ UNCHANGED <<users, orders, ledger, tx, orderList, req>>

\* ------------------------------------------------------- specification
Init ==
    /\ users = << >>
    /\ orders = << >>
    /\ ledger = << >>
    /\ tx = [p \in Procs |-> NoTx]
    /\ pc = [p \in Procs |-> IF p = Poller THEN "loop" ELSE "idle"]
    /\ orderList = {}
    /\ order = NoOrder
    /\ req = [p \in Handlers |-> NoReq]
    /\ result = [p \in Procs |-> Pending]
    /\ hist = [p \in Procs |-> NoHist]
    /\ poll = NoPoll
    /\ call = [p \in Handlers |-> NoCall]

\* the input bound: the ledger has room for the row of one more call
Room == Len(ledger) + InFlight < MaxLedger

\* the poller task: go ProcessOrders()
PollerNext(accruals) ==
    \/ ProcessOrdersGetList
    \/ ProcessOrdersGetListError
    \/ ProcessOrdersEndOfPass
    \/ \E o \in orderList : ProcessOrdersSkip(o)
    \/ \E o \in orderList, st \in ReplyStatuses, a \in accruals :
          Room /\ ProcessOrdersAccrue(o, st, a)
    \/ AccrueUpdate
    \/ AccrueUser
    \/ AccrueLedger
    \/ AccrueCommit
    \/ AccrueDBError
    \/ AccrueReturn

\* the steps of one Withdraw call in an HTTP task, database errors excluded
WithdrawNext(p) ==
    \/ WithdrawSelect(p)
    \/ WithdrawUpdate(p)
    \/ WithdrawLedger(p)
    \/ WithdrawCommit(p)

\* The whole program: user and order registration, the poller and one withdraw
\* task running concurrently, every database statement liable to fail.  Orders
\* and withdraw requests come from authenticated, hence registered, users.
Next ==
    /\ \/ CreateUser
       \/ \E u \in DOMAIN users : RegisterOrder(1, u)
       \/ PollerNext(AccrualValues)
       \/ \E u \in DOMAIN users, n \in WithdrawNumbers, s \in Sums :
             Room /\ WithdrawFromUser("h1", u, n, s)
       \/ WithdrawNext("h1")
       \/ WithdrawReturn("h1")
       \/ WithdrawDBError("h1")
    /\ UNCHANGED <<poll, call>>

Spec == Init /\ [][Next]_vars

\* The poller alone over two orders, the service reporting no accrual or 1.
NextPoller ==
    /\ \/ CreateUser
       \/ \E n \in OrderNumbers, u \in DOMAIN users : RegisterOrder(n, u)
       \/ PollerNext({NULL, Some(1)})
    /\ UNCHANGED <<poll, call>>

SpecPoller == Init /\ [][NextPoller]_vars

\* Two HTTP tasks each serving one withdraw request of the same user, whose
\* balance B was credited by one accrual; no database errors.
InitWW ==
    \E B \in 1..MaxBalance :
        /\ users = [u \in {1} |-> [balance |-> B, withdrawn |-> 0]]
        /\ orders = [n \in {1} |-> [user_id |-> 1, status |-> StatusProcessed, accrual |-> Some(B)]]
        /\ ledger = << [user_id |-> 1, order_number |-> 1,
                        operation |-> TransactionDebit, value |-> B] >>
        /\ tx = [p \in Procs |-> NoTx]
        /\ pc = [p \in Procs |-> IF p = Poller THEN "loop" ELSE "idle"]
        /\ orderList = {}
        /\ order = NoOrder
        /\ req = [p \in Handlers |-> NoReq]
        /\ result = [p \in Procs |-> Pending]
        /\ hist = [p \in Procs |-> NoHist]
        /\ poll = NoPoll
        /\ call = [p \in Handlers |-> NoCall]

NextWW ==
    /\ \/ \E p \in Handlers, n \in WithdrawNumbers, s \in Sums : WithdrawFromUser(p, 1, n, s)
       \/ \E p \in Handlers : WithdrawNext(p)
    /\ UNCHANGED <<poll, call>>

SpecWW == InitWW /\ [][NextWW]_vars

\* ============================================================ properties
\* no Accrue or Withdraw call is between its entry and its return
Quiescent ==
    \A p \in Procs : pc[p] \notin {"a_update", "a_user", "a_ledger", "a_commit",
                                   "w_select", "w_update", "w_ledger", "w_commit"}

\* ledger ids of the rows that match (user_id, order_number, operation)
Entries(u, n, op) ==
    {i \in 1..Len(ledger) : /\ ledger[i].user_id = u
                            /\ ledger[i].order_number = n
                            /\ ledger[i].operation = op}

\* the user an Accrue / Withdraw call in progress at p works on
CallUser(p) == IF p = Poller THEN order.user_id ELSE req[p].userID

\* C1: at every quiescent point, every user's balance is the sum of the user's
\* debit ledger values minus the sum of the credit values, and withdrawn is the
\* sum of the credit values, failed calls included.
C1_LedgerReconciles ==
    Quiescent =>
        \A u \in DOMAIN users :
            /\ users[u].balance = SumSeq(ledger, u, TransactionDebit)
                                  - SumSeq(ledger, u, TransactionCredit)
            /\ users[u].withdrawn = SumSeq(ledger, u, TransactionCredit)

\* C2: every order stored PROCESSED with accrual > 0 has exactly one debit
\* ledger row of its user and number, and the row's value is the accrual
\* (stated at the quiescent points, where no Accrue is half done).
C2_OneDebitPerProcessedOrder ==
    Quiescent =>
        \A n \in DOMAIN orders :
            (/\ orders[n].status = StatusProcessed
             /\ orders[n].accrual # NULL
             /\ Val(orders[n].accrual) > 0)
            => /\ Cardinality(Entries(orders[n].user_id, n, TransactionDebit)) = 1
               /\ \A i \in Entries(orders[n].user_id, n, TransactionDebit) :
                     ledger[i].value = Val(orders[n].accrual)

\* C3: when Accrue returns an error, the order row is as it was when Accrue was
\* called, no ledger row inserted by the call remains, and the user row is as
\* the call's UPDATE found it.
C3_AccrueAllOrNothing ==
    (pc[Poller] = "a_ret" /\ result[Poller] # ErrNil) =>
        /\ (IF order.number \in DOMAIN orders
            THEN <<orders[order.number]>> ELSE << >>) = hist[Poller].preOrder
        /\ hist[Poller].added = {}
        /\ hist[Poller].preUser # << >> => users[order.user_id] = hist[Poller].preUser[1]

\* a call at p has executed its UPDATE of the users row and has not completed
\* its ledger insert
AfterUserUpdate(p) == pc[p] \in {"a_ledger", "w_ledger"}

\* C4: when Accrue or Withdraw fails after its UPDATE of the users row has
\* executed and before its ledger insert completes, then at its return the
\* user's committed balance and withdrawn are what they were before the UPDATE;
\* and nothing else changes the committed row between the UPDATE and the return.
C4_UserRowRestored ==
    [][\A p \in Procs :
          AfterUserUpdate(p) =>
             /\ users[CallUser(p)] = hist[p].preUser[1]
             /\ pc'[p] \in {"a_ret", "w_ret"} =>
                   /\ result'[p] # ErrNil
                   /\ users'[CallUser(p)] = hist[p].preUser[1]]_vars

\* C4 witness: an Accrue and a Withdraw have both returned a database error
\* raised by the ledger insert, after their UPDATE of a user with a balance
C4_Witness ==
    /\ pc[Poller] = "a_ret" /\ pc["h1"] = "w_ret"
    /\ \A p \in {Poller, "h1"} :
          /\ result[p] = ErrDB
          /\ hist[p].preUser # << >>
          /\ hist[p].added = {}
    /\ Val(order.accrual) > 0
    /\ users[1].balance > 0

\* C5: two Withdraw calls on the same user with balance B and sums s1, s2, each
\* at most B and together more than B: whatever the interleaving, when both
\* have returned exactly one has returned nil and the other
\* ErrInsufficientFunds, the balance is B minus the winner's sum, and exactly one
\* credit row has been added to the ledger.
C5_OneWithdrawWins ==
    LET B == ledger[1].value
        s1 == req["h1"].sum
        s2 == req["h2"].sum
    IN  (/\ pc["h1"] = "w_ret" /\ pc["h2"] = "w_ret"
         /\ result["h1"] # ErrRequestIsWrong /\ result["h2"] # ErrRequestIsWrong
         /\ s1 <= B /\ s2 <= B /\ s1 + s2 > B)
        => \E w \in Handlers : \E l \in Handlers \ {w} :
              /\ result[w] = ErrNil
              /\ result[l] = ErrInsufficientFunds
              /\ users[1].balance = B - req[w].sum
              /\ users[1].withdrawn = req[w].sum
              /\ Len(ledger) = 2
              /\ ledger[2] = [user_id |-> 1, order_number |-> req[w].orderNumber,
                              operation |-> TransactionCredit, value |-> req[w].sum]

\* C5 witness: both calls have read the same balance B = 2, so both passed the
\* balance.LessThan(sum) test, with sums 1 and 2; one returned nil and the
\* other was refused by the UPDATE
C5_Witness ==
    /\ pc["h1"] = "w_ret" /\ pc["h2"] = "w_ret"
    /\ hist["h1"].balance = Some(2) /\ hist["h2"].balance = Some(2)
    /\ req["h1"].sum = 1 /\ req["h2"].sum = 2
    /\ result["h1"] = ErrInsufficientFunds
    /\ result["h2"] = ErrNil

\* C6: every Withdraw(u, order, s) that returns nil read a committed balance of
\* at least s and commits over a committed balance of at least s; its commit
\* takes s from the balance, adds s to withdrawn, and the call has appended
\* exactly one ledger row, (u, order, credit, s).
C6_SuccessfulWithdraw ==
    [][\A p \in Handlers :
          (pc[p] = "w_commit" /\ pc'[p] = "w_ret" /\ result'[p] = ErrNil) =>
             LET u == req[p].userID
                 s == req[p].sum
             IN  /\ hist[p].balance # NULL
                 /\ Val(hist[p].balance) >= s
                 /\ users[u].balance >= s
                 /\ users'[u].balance = users[u].balance - s
                 /\ users'[u].withdrawn = users[u].withdrawn + s
                 /\ Cardinality(hist[p].added) = 1
                 /\ \A i \in hist[p].added :
                       ledger'[i] = [user_id |-> u, order_number |-> req[p].orderNumber,
                                     operation |-> TransactionCredit, value |-> s]]_vars

\* C6 witness: a Withdraw of 1 has returned nil
C6_Witness ==
    /\ pc["h1"] = "w_ret"
    /\ result["h1"] = ErrNil
    /\ req["h1"].sum = 1
    /\ users[1].withdrawn = 1

\* C7: no step changes the row of an order whose stored status is INVALID or
\* PROCESSED, whatever the accrual service replies.
C7_TerminalOrdersNeverChange ==
    [][\A n \in DOMAIN orders :
          orders[n].status \in {StatusInvalid, StatusProcessed} => orders'[n] = orders[n]]_vars

\* C8: the list a pass of the poller fetches holds exactly the orders whose
\* stored status is neither INVALID nor PROCESSED.
C8_FetchesExactlyNonTerminal ==
    [][(pc[Poller] = "loop" /\ pc'[Poller] = "iter") =>
          {o.number : o \in orderList'} =
             {n \in DOMAIN orders : orders[n].status \notin {StatusInvalid, StatusProcessed}}]_vars

\* an Accrue call is between its entry and its return, for an order that
\* existed when the reply was handled
AccrueRunning ==
    /\ pc[Poller] \in {"a_update", "a_user", "a_ledger", "a_commit"}
    /\ hist[Poller].preOrder # << >>

\* C9: an Accrue call for an existing order with a null or zero accrual and a
\* status other than PROCESSED, no statement of which fails on a database
\* fault, changes neither the users table nor the ledger, and returns nil with
\* the new status written to the order row.
C9_NullOrZeroAccrualSkipsMoney ==
    [][(/\ AccrueRunning
        /\ order.accrual \in {NULL, Some(0)}
        /\ order.status # StatusProcessed
        /\ pc'[Poller] # pc[Poller]
        /\ result'[Poller] # ErrDB)
       => /\ users' = users
          /\ ledger' = ledger
          /\ pc'[Poller] = "a_ret" =>
                /\ result'[Poller] = ErrNil
                /\ orders'[order.number].status = order.status]_vars

\* the Accrue call that handles a reply 200 {status: INVALID, no accrual} for
\* an order stored NEW or PROCESSING
InvalidReplyRunning ==
    /\ AccrueRunning
    /\ order.status = StatusInvalid
    /\ order.accrual = NULL
    /\ hist[Poller].preOrder[1].status \in {StatusNew, StatusProcessing}

Tick ==
    /\ poll' = [poll EXCEPT !.wait = IF @ > 0 THEN @ - 1 ELSE 0,
                            !.quiet = IF @ > 0 THEN @ - 1 ELSE 0]
    /\ UNCHANGED data

\* time.Sleep returns after at least its duration
Awake == poll.wait = 0

\* (mutant) the 429 branch without its time.Sleep
NoRetryAfterSleep(seconds) == 0

\* the 429 branch: time.Sleep(time.Duration(seconds) * time.Second)
RetryAfterSleep(seconds) == seconds

\* `for _, order := range *orderList { time.Sleep(time.Second)`: the sleep that
\* precedes the request for the next order, if the range has one
NextOrderSleep(rest) == IF rest = {} THEN 0 ELSE 1

\* top of the loop: time.Sleep(time.Second) is over and the list query
\* succeeds; a new pass starts
TimedGetList ==
    /\ Awake
    /\ ProcessOrdersGetList
    /\ poll' = [poll EXCEPT !.wait = NextOrderSleep(GetList),
                            !.retryAfter = NULL, !.backoff = FALSE]

\* the list query fails: `continue` leads to the sleep at the top of the loop
TimedGetListError ==
    /\ Awake
    /\ ProcessOrdersGetListError
    /\ poll' = [poll EXCEPT !.wait = 1]

\* the range is exhausted: back to the sleep at the top of the loop
TimedEndOfPass ==
    /\ Awake
    /\ ProcessOrdersEndOfPass
    /\ poll' = [poll EXCEPT !.wait = 1]

\* http.Get for order o after its one-second sleep, answered with a reply that
\* ends in `continue toNextOrder`.  retry = Some(n): 429 with Retry-After: n,
\* the poller sleeps n seconds first.  retry = NULL: any other such reply.
TimedSkip(o, retry) ==
    /\ Awake
    /\ ProcessOrdersSkip(o)
    /\ poll' = [poll EXCEPT
                  !.wait = (IF retry = NULL THEN 0 ELSE RetryAfterSleep(Val(retry)))
                           + NextOrderSleep(orderList'),
                  !.quiet = IF retry = NULL THEN poll.quiet ELSE Val(retry),
                  !.retryAfter = retry,
                  !.backoff = poll.backoff \/ retry # NULL]

\* http.Get for order o after its one-second sleep, answered 200 with a new
\* status: Accrue is called
TimedAccrue(o, status, accrual) ==
    /\ Awake
    /\ ProcessOrdersAccrue(o, status, accrual)
    /\ poll' = [poll EXCEPT !.retryAfter = NULL]

\* Accrue has returned: on to the next order and its one-second sleep
TimedAccrueReturn ==
    /\ AccrueReturn
    /\ poll' = [poll EXCEPT !.wait = NextOrderSleep(orderList)]

\* The poller with its sleeps, over two orders; the accrual service answers
\* 429 with Retry-After 0..MaxRetryAfter, 200 without accrual, or anything else.
NextBackoff ==
    /\ \/ Tick
       \/ CreateUser /\ UNCHANGED poll
       \/ \E n \in OrderNumbers, u \in DOMAIN users : RegisterOrder(n, u) /\ UNCHANGED poll
       \/ TimedGetList
       \/ TimedGetListError
       \/ TimedEndOfPass
       \/ \E o \in orderList, n \in 0..MaxRetryAfter : TimedSkip(o, Some(n))
       \/ \E o \in orderList : TimedSkip(o, NULL)
       \/ \E o \in orderList, st \in ReplyStatuses : TimedAccrue(o, st, NULL)
       \/ (AccrueUpdate \/ AccrueUser \/ AccrueDBError) /\ UNCHANGED poll
       \/ TimedAccrueReturn
    /\ UNCHANGED call

SpecBackoff == Init /\ [][NextBackoff]_vars

\* the poller sends a request to the accrual service and handles the reply
Request == pc[Poller] = "iter" /\ orderList' # orderList

\* C11 as stated: once a 429 with a parseable Retry-After was received in a
\* pass, no further request is sent in that pass.
C11_NoRequestAfter429InPass ==
    [][Request => ~poll.backoff]_vars

\* C11, amended: on a 429 with Retry-After: n the poller sleeps n seconds and
\* then goes on with the next order of the same pass after that order's
\* one-second sleep; only the answered order leaves the list, and a pass ends
\* only when its list is exhausted.
C11_GoesOnWithPassAfter429 ==
    [][/\ (Request /\ poll'.retryAfter # NULL) =>
             /\ pc'[Poller] = "iter"
             /\ orderList' \subseteq orderList
             /\ Cardinality(orderList') = Cardinality(orderList) - 1
             /\ poll'.wait = Val(poll'.retryAfter) + NextOrderSleep(orderList')
       /\ (pc[Poller] = "iter" /\ pc'[Poller] = "loop") => orderList = {}]_vars

\* C11 witness: in a pass in which a 429 with Retry-After: 2 was received, the
\* next order has been requested and answered otherwise
C11_Witness ==
    /\ poll.backoff
    /\ poll.retryAfter = NULL
    /\ pc[Poller] = "iter"
    /\ Cardinality(DOMAIN orders) = 2
    /\ orderList = {}

\* C12: after a 429 with Retry-After: n, n >= 0, no request is sent to the
\* accrual service while the n seconds run, and handling the 429 leaves the
\* order rows as stored.
C12_QuietForRetryAfter ==
    [][/\ Request => poll.quiet = 0
       /\ (Request /\ poll'.retryAfter # NULL) =>
             /\ orders' = orders
             /\ poll'.quiet = Val(poll'.retryAfter)]_vars

\* C12 witness: the Retry-After: 2 of a 429 has run out and the next order of
\* the pass is about to be requested
C12_Witness ==
    /\ poll.retryAfter = Some(2)
    /\ poll.quiet = 0
    /\ poll.wait = 0
    /\ pc[Poller] = "iter"
    /\ orderList # {}

\* ============================================ the accrual happy path
\* The accrual service answers every request for order n with
\* 200 {order: n, status: PROCESSED, accrual: award[n]}, award[n] > 0, and no
\* database statement fails.
InitHappy ==
    /\ users = << >>
    /\ orders = << >>
    /\ ledger = << >>
    /\ tx = [p \in Procs |-> NoTx]
    /\ pc = [p \in Procs |-> IF p = Poller THEN "loop" ELSE "idle"]
    /\ orderList = {}
    /\ order = NoOrder
    /\ req = [p \in Handlers |-> NoReq]
    /\ result = [p \in Procs |-> Pending]
    /\ hist = [p \in Procs |-> NoHist]
    /\ \E award \in [OrderNumbers -> 1..MaxBalance] : poll = [NoPoll EXCEPT !.award = award]
    /\ call = [p \in Handlers |-> NoCall]

\* the range is exhausted: one more pass is complete for every stored order
HappyEndOfPass ==
    /\ ProcessOrdersEndOfPass
    /\ poll' = [poll EXCEPT !.passes =
                  [n \in OrderNumbers |->
                     IF n \in DOMAIN orders /\ @[n] < MaxPasses THEN @[n] + 1 ELSE @[n]]]

\* the reply for order o: the same status as fetched (`continue toNextOrder`)
\* or a new one (Accrue)
HappyReply(o) ==
    \/ ~StatusChanged(o, StatusProcessed) /\ ProcessOrdersSkip(o)
    \/ ProcessOrdersAccrue(o, StatusProcessed, Some(poll.award[o.number]))

NextHappy ==
    \/ /\ \/ CreateUser
          \/ \E n \in OrderNumbers, u \in DOMAIN users : RegisterOrder(n, u)
          \/ ProcessOrdersGetList
          \/ \E o \in orderList : HappyReply(o)
          \/ AccrueUpdate
          \/ AccrueUser
          \/ AccrueLedger
          \/ AccrueCommit
          \/ AccrueReturn
       /\ UNCHANGED <<poll, call>>
    \/ HappyEndOfPass /\ UNCHANGED call

SpecHappy == InitHappy /\ [][NextHappy]_vars

\* C13: with a service that answers every request for an order stored NEW
\* with 200 PROCESSED and accrual a > 0, and no database failure: once two
\* passes have been completed since the order was stored, and in every later
\* state, the order is stored PROCESSED with accrual a and has exactly one
\* debit ledger row, of value a; whenever no Accrue is running the owner's
\* balance is the sum of a over the owner's PROCESSED orders and withdrawn is 0.
C13_ProcessedWithinTwoPasses ==
    /\ \A n \in DOMAIN orders :
          poll.passes[n] >= 2 =>
             /\ orders[n].status = StatusProcessed
             /\ orders[n].accrual = Some(poll.award[n])
             /\ Cardinality(Entries(orders[n].user_id, n, TransactionDebit)) = 1
             /\ \A i \in Entries(orders[n].user_id, n, TransactionDebit) :
                   ledger[i].value = poll.award[n]
    /\ Quiescent =>
          \A u \in DOMAIN users :
             /\ users[u].withdrawn = 0
             /\ users[u].balance = SumSeq(ledger, u, TransactionDebit)
             /\ Len(ledger) = Cardinality({n \in DOMAIN orders :
                                              orders[n].status = StatusProcessed})

\* C13 witness: order 1 missed the pass that was running when it was stored,
\* was credited in the next one, and further passes have been completed
C13_Witness ==
    /\ 1 \in DOMAIN orders
    /\ poll.passes[1] = MaxPasses
    /\ orders[1].status = StatusProcessed
    /\ poll.award[1] = 2
    /\ users[1].balance = 2
    /\ Len(ledger) = 1

\* ======================================== the packages called directly
\* orders.Accrue called with an Order value of the caller's making, as
\* Test_AccrueAndWithdraw does: neither the order row nor the user row need
\* exist.  The caller runs in the poller's task, between two passes.
AccrueCall(o) ==
    /\ pc[Poller] \in {"loop", "iter"}
    /\ orderList = {}
    /\ order' = o
    /\ hist' = [hist EXCEPT ![Poller] =
                  [NoHist EXCEPT !.preOrder =
                     IF o.number \in DOMAIN orders THEN <<orders[o.number]>> ELSE << >>]]
    /\ result' = [result EXCEPT ![Poller] = Pending]
    /\ pc' = [pc EXCEPT ![Poller] = "a_update"]
    /\ Begin(Poller)
    /\ UNCHANGED <<users, orders, ledger, orderList, req>>

\* Accrue and Withdraw called for order 1 and user 1 before and after the rows
\* exist; every database statement liable to fail.
NextCalls ==
    /\ \/ CreateUser
       \/ RegisterOrder(1, 1)
       \/ \E st \in ReplyStatuses, a \in {NULL, Some(1)} :
             Room /\ AccrueCall([number |-> 1, user_id |-> 1, status |-> st, accrual |-> a])
       \/ AccrueUpdate
       \/ AccrueUser
       \/ AccrueLedger
       \/ AccrueCommit
       \/ AccrueDBError
       \/ AccrueReturn
       \/ \E s \in Sums \ {0} : Room /\ WithdrawFromUser("h1", 1, 2, s)
       \/ WithdrawNext("h1")
       \/ WithdrawDBError("h1")
       \/ WithdrawReturn("h1")
    /\ UNCHANGED <<poll, call>>

SpecCalls == Init /\ [][NextCalls]_vars

\* C14: an Accrue whose order number has no row returns ErrNoSuchOrder; an
\* Accrue whose order row exists while no user row has the order's user id
\* returns ErrNoSuchUser (no statement failing on a database fault); a call
\* that returns either has written no user row and appended no ledger row.
C14_AccrueNoSuchOrderOrUser ==
    [][/\ (/\ pc[Poller] = "a_update" /\ pc'[Poller] # "a_update"
           /\ result'[Poller] # ErrDB
           /\ order.number \notin DOMAIN orders)
          => result'[Poller] = ErrNoSuchOrder
       /\ (/\ pc[Poller] = "a_user" /\ pc'[Poller] # "a_user"
           /\ result'[Poller] # ErrDB
           /\ order.number \in DOMAIN orders
           /\ order.user_id \notin DOMAIN users)
          => result'[Poller] = ErrNoSuchUser
       /\ (/\ result[Poller] = Pending
           /\ result'[Poller] \in {ErrNoSuchOrder, ErrNoSuchUser})
          => /\ users' = users
             /\ ledger' = ledger
             /\ hist[Poller].added = {}
             /\ hist[Poller].preUser = << >>
             /\ ~tx'[Poller].open]_vars

\* C14 witness: an Accrue with an accrual, for a stored order whose user does
\* not exist, has returned ErrNoSuchUser
C14_Witness ==
    /\ pc[Poller] = "a_ret"
    /\ result[Poller] = ErrNoSuchUser
    /\ order.accrual = Some(1)
    /\ order.number \in DOMAIN orders
    /\ users = << >>

\* C14 witness of the other error: an Accrue for a number without a row has
\* returned ErrNoSuchOrder
C14_WitnessNoSuchOrder ==
    /\ pc[Poller] = "a_ret"
    /\ result[Poller] = ErrNoSuchOrder
    /\ orders = << >>

\* C15: a Withdraw whose SELECT finds no user row returns ErrNoSuchUser and one
\* whose SELECT reads a balance less than sum returns ErrInsufficientFunds (no
\* statement failing on a database fault); a call that returns either has
\* written no user row and appended no ledger row.
C15_WithdrawNoSuchUserOrFunds ==
    [][\A p \in Handlers :
          /\ (/\ pc[p] = "w_select" /\ pc'[p] # "w_select"
              /\ result'[p] # ErrDB
              /\ req[p].userID \notin DOMAIN users)
             => result'[p] = ErrNoSuchUser
          /\ (/\ pc[p] = "w_select" /\ pc'[p] # "w_select"
              /\ result'[p] # ErrDB
              /\ req[p].userID \in DOMAIN users
              /\ users[req[p].userID].balance < req[p].sum)
             => result'[p] = ErrInsufficientFunds
          /\ (/\ result[p] = Pending
              /\ result'[p] \in {ErrNoSuchUser, ErrInsufficientFunds})
             => /\ users' = users
                /\ ledger' = ledger
                /\ hist[p].added = {}
                /\ hist[p].preUser = << >>
                /\ ~tx'[p].open]_vars

\* C15 witness: a Withdraw of 2 from a balance of 1 has returned
\* ErrInsufficientFunds
C15_Witness ==
    /\ pc["h1"] = "w_ret"
    /\ result["h1"] = ErrInsufficientFunds
    /\ req["h1"].sum = 2
    /\ 1 \in DOMAIN users
    /\ users[1].balance = 1

\* C15 witness of the other error: a Withdraw for a user without a row has
\* returned ErrNoSuchUser
C15_WitnessNoSuchUser ==
    /\ pc["h1"] = "w_ret"
    /\ result["h1"] = ErrNoSuchUser
    /\ users = << >>

\* ============================================ db.Transaction, any callback
\* (mutant) Transaction without its `db.tx != nil` test
NeverInTransaction(handle) == FALSE

\* pg.Transaction: `db.tx != nil`
InTransaction(handle) == handle.open

\* (mutant) Transaction with a pointer receiver: `db.tx = &tx` marks the Store
\* handle itself for as long as some task's transaction is open
PointerReceiverHandle ==
    IF \E q \in Procs : tx[q].open
    THEN tx[CHOOSE q \in Procs : tx[q].open]
    ELSE NoTx

\* the handle runEnv.DB() returns: pg{conn, nil}.  Transaction has a value
\* receiver, so `db.tx = &tx` never reaches it.
PoolHandle == NoTx

\* pg.Transaction when db.Rollback fails after doWork's error: fmt.Errorf with
\* both messages (%s: the text of err, not err itself)
RollbackFailed(err) == "rollback failed with error: DBError; rollback itself was initiated after error: " \o err

\* db.Transaction(ctx, doWork) called on the pool handle: conn.Begin succeeds
\* and doWork is entered with the handle bound to the transaction
TransactionCall(p) ==
    /\ pc[p] = "idle"
    /\ ~InTransaction(PoolHandle)
    /\ Begin(p)
    /\ pc' = [pc EXCEPT ![p] = "t_work"]
    /\ result' = [result EXCEPT ![p] = Pending]
    /\ hist' = [hist EXCEPT ![p] = NoHist]
    /\ call' = [call EXCEPT ![p] = NoCall]
    /\ UNCHANGED <<users, orders, ledger, orderList, order, req, poll>>

\* conn.Begin fails: Transaction returns the error, doWork is not run
TransactionBeginError(p) ==
    /\ pc[p] = "idle"
    /\ pc' = [pc EXCEPT ![p] = "t_ret"]
    /\ result' = [result EXCEPT ![p] = ErrDB]
    /\ hist' = [hist EXCEPT ![p] = NoHist]
    /\ call' = [call EXCEPT ![p] = NoCall]
    /\ UNCHANGED <<users, orders, ledger, tx, orderList, order, req, poll>>

\* doWork executes a statement on its handle: UPDATE users SET balance = b
\* WHERE id = u
TxExec(p, u, b) ==
    /\ pc[p] = "t_work"
    /\ u \in DOMAIN users
    /\ ~LockedByOther(p, u)
    /\ ExecUsersInTx(p, u, [(IF tx[p].user = u THEN tx[p].row ELSE users[u])
                               EXCEPT !.balance = b])
    /\ hist' = [hist EXCEPT ![p].preUser = <<users[u]>>]
    /\ call' = [call EXCEPT ![p].after = (call[p].inner # Pending),
                            ![p].wrote = Some(b),
                            ![p].seen = NULL]
    /\ UNCHANGED <<orders, ledger, pc, orderList, order, req, result, poll>>

\* doWork calls Transaction on its handle
TxNested(p) ==
    /\ pc[p] = "t_work"
    /\ call[p].inner = Pending
    /\ call' = [call EXCEPT ![p].inner = IF InTransaction(tx[p])
                                         THEN ErrNestedTransaction ELSE ErrNil,
                            ![p].innerRan = ~InTransaction(tx[p])]
    /\ UNCHANGED <<users, orders, ledger, tx, pc, orderList, order, req, result, hist, poll>>

\* doWork returns err.  nil: Transaction goes on to tx.Commit.  Otherwise
\* db.Rollback, which succeeds (Transaction returns err) or fails (Transaction
\* returns the formatted error); either way the transaction is gone.
TxReturn(p, err) ==
    /\ pc[p] = "t_work"
    /\ call' = [call EXCEPT ![p].fn = err]
    /\ IF err = ErrNil
       THEN /\ pc' = [pc EXCEPT ![p] = "t_commit"]
            /\ UNCHANGED <<tx, result>>
       ELSE \/ Rollback(p, err, "t_ret")
            \/ Rollback(p, RollbackFailed(err), "t_ret")
    /\ UNCHANGED <<users, orders, ledger, orderList, order, req, hist, poll>>

\* tx.Commit succeeds
TxCommit(p) ==
    /\ pc[p] = "t_commit"
    /\ users' = CommitUsers(p)
    /\ tx' = [tx EXCEPT ![p] = NoTx]
    /\ result' = [result EXCEPT ![p] = ErrNil]
    /\ pc' = [pc EXCEPT ![p] = "t_ret"]
    /\ UNCHANGED <<orders, ledger, orderList, order, req, hist, poll, call>>

\* tx.Commit fails: Transaction returns its error, the deferred Rollback runs
TxCommitError(p) ==
    /\ pc[p] = "t_commit"
    /\ Rollback(p, ErrDB, "t_ret")
    /\ UNCHANGED <<users, orders, ledger, orderList, order, req, hist, poll, call>>

\* Transaction has returned to its caller
TxDone(p) ==
    /\ pc[p] = "t_ret"
    /\ pc' = [pc EXCEPT ![p] = "idle"]
    /\ UNCHANGED <<users, orders, ledger, tx, orderList, order, req, result, hist, poll, call>>

\* Two tasks run callbacks of any shape (statements on the handle, a nested
\* Transaction, a nil or non-nil return) on one users row.
NextTx ==
    \/ CreateUser /\ UNCHANGED <<poll, call>>
    \/ \E p \in Handlers :
          \/ TransactionCall(p)
          \/ TransactionBeginError(p)
          \/ \E u \in UserIds, b \in 1..MaxBalance : TxExec(p, u, b)
          \/ TxNested(p)
          \/ \E err \in {ErrNil, ErrWork} : TxReturn(p, err)
          \/ TxCommit(p)
          \/ TxCommitError(p)
          \/ TxDone(p)

SpecTx == Init /\ [][NextTx]_vars

\* C16: Transaction goes on to Commit only when the callback returned nil, and
\* a successful Commit publishes what the callback wrote through its handle;
\* when the callback returns an error, Transaction returns that error, or an
\* error whose text contains it when the rollback failed too, and the
\* committed table is as it was; no row changes except by such a Commit.
C16_CommitIffCallbackNil ==
    [][/\ \A p \in Handlers :
             /\ (pc[p] = "t_work" /\ pc'[p] = "t_commit") => call'[p].fn = ErrNil
             /\ (pc[p] = "t_work" /\ pc'[p] = "t_ret") =>
                   /\ call'[p].fn # ErrNil
                   /\ result'[p] \in {call'[p].fn, RollbackFailed(call'[p].fn)}
                   /\ users' = users
                   /\ ~tx'[p].open
             /\ (pc[p] = "t_commit" /\ result'[p] = ErrNil /\ tx[p].user \in DOMAIN users)
                   => users'[tx[p].user] = tx[p].row
       /\ \A u \in DOMAIN users :
             users'[u] # users[u] =>
                \E p \in Handlers : /\ pc[p] = "t_commit"
                                    /\ call[p].fn = ErrNil
                                    /\ result'[p] = ErrNil
                                    /\ tx[p].user = u]_vars

\* C16 witness: a callback that wrote balance 2 through its handle has
\* returned an error; Transaction has returned it and the row is as before
C16_Witness ==
    /\ pc["h1"] = "t_ret"
    /\ call["h1"].fn = ErrWork
    /\ result["h1"] = ErrWork
    /\ hist["h1"].preUser = <<ZeroUser>>
    /\ users[1] = ZeroUser

\* C16 witness of the commit: a callback that wrote balance 2 through its
\* handle has returned nil and the row is committed
C16_WitnessCommitted ==
    /\ pc["h1"] = "t_ret"
    /\ call["h1"].fn = ErrNil
    /\ result["h1"] = ErrNil
    /\ hist["h1"].preUser = <<ZeroUser>>
    /\ users[1].balance = 2

\* C17: Transaction called on the callback's handle returns
\* ErrNestedTransaction without running the function it was given and without
\* touching the outer transaction; what the callback executes afterwards is
\* committed with the outer transaction when the callback returns nil and
\* discarded when it returns an error.
C17_NestedTransactionRefused ==
    [][\A p \in Handlers :
          /\ (call[p].inner = Pending /\ call'[p].inner # Pending) =>
                /\ call'[p].inner = ErrNestedTransaction
                /\ ~call'[p].innerRan
                /\ tx' = tx
                /\ tx[p].open
                /\ users' = users
                /\ pc'[p] = "t_work"
          /\ (call[p].inner # Pending /\ pc[p] = "t_work" /\ tx'[p] # tx[p] /\ pc'[p] = "t_work")
                => tx'[p].open /\ call'[p].after
          /\ (call[p].after /\ pc[p] = "t_commit" /\ result'[p] = ErrNil)
                => users'[tx[p].user] = tx[p].row
          /\ (call[p].after /\ pc[p] = "t_work" /\ pc'[p] = "t_ret")
                => users' = users /\ result'[p] # ErrNil]_vars

\* C17 witness: after the refused nested call the callback wrote balance 2
\* through its handle and returned nil; the row is committed
C17_Witness ==
    /\ pc["h1"] = "t_ret"
    /\ call["h1"].inner = ErrNestedTransaction
    /\ ~call["h1"].innerRan
    /\ call["h1"].after
    /\ result["h1"] = ErrNil
    /\ hist["h1"].preUser = <<ZeroUser>>
    /\ users[1].balance = 2

\* ================================================ orders.Create / GetByNumber
\* Order numbers as the strings the callers pass: sequences of characters,
\* 0..9 the digits, Minus the sign '-', Letter any other character.
Minus == 10
Letter == 11
\* "18", "018", "-1" (the number of the package tests) and "1x"
CreateNumbers == {<<1, 8>>, <<0, 1, 8>>, <<Minus, 1>>, <<1, Letter>>}
\* users.id of the callers; orders.user_id has no foreign key
Owners == {1, 2}

\* onlyDigitsRe.Match: ^[0-9]+$
OnlyDigitsRe(s) == Len(s) > 0 /\ \A i \in 1..Len(s) : s[i] \in 0..9

\* the value of a string of decimal digits
RECURSIVE DigitsValue(_)
DigitsValue(s) ==
    IF s = << >> THEN 0 ELSE DigitsValue(SubSeq(s, 1, Len(s) - 1)) * 10 + s[Len(s)]

\* $1::bigint accepts the text: an optional sign and digits
ValidBigint(s) == OnlyDigitsRe(s) \/ (Len(s) > 1 /\ s[1] = Minus /\ OnlyDigitsRe(Tail(s)))

\* $1::bigint
Bigint(s) == IF s[1] = Minus THEN 0 - DigitsValue(Tail(s)) ELSE DigitsValue(s)

\* number::text: the canonical decimal text, no leading zeros
RECURSIVE Text(_)
Text(n) ==
    IF n < 0 THEN <<Minus>> \o Text(0 - n)
    ELSE IF n < 10 THEN <<n>>
    ELSE Text(n \div 10) \o <<n % 10>>

\* the row INSERT INTO orders (number, user_id, status) builds: accrual is
\* NULL, uploaded_at defaults to now() (a logical clock: rows are never deleted)
NewOrderRow(tbl, userID) ==
    [user_id |-> userID, status |-> StatusNew, accrual |-> NULL,
     uploaded_at |-> Cardinality(DOMAIN tbl) + 1]

\* (mutant) INSERT ... ON CONFLICT (number) DO UPDATE
OnConflictDoUpdate(tbl, n, row) ==
    [m \in DOMAIN tbl \cup {n} |-> IF m = n THEN row ELSE tbl[m]]

\* INSERT ... ON CONFLICT DO NOTHING on the primary key number
OnConflictDoNothing(tbl, n, row) ==
    IF n \in DOMAIN tbl
    THEN tbl
    ELSE [m \in DOMAIN tbl \cup {n} |-> IF m = n THEN row ELSE tbl[m]]

\* number::text, user_id, uploaded_at, status, accrual of row n scanned into
\* &Order{}; no row leaves the Order empty
Scan(tbl, n) ==
    IF n \in DOMAIN tbl
    THEN [number |-> Text(n), user_id |-> tbl[n].user_id, status |-> tbl[n].status,
          accrual |-> tbl[n].accrual, uploaded_at |-> tbl[n].uploaded_at]
    ELSE EmptyOrder

\* RETURNING of the INSERT: the row when one was inserted
Returning(tbl, n, after) == IF n \in DOMAIN tbl THEN EmptyOrder ELSE Scan(after, n)

\* orders.Create(number, userID): one statement on the pool handle.  A text
\* that is no bigint makes the statement fail.
OrdersCreate(p, number, userID) ==
    /\ pc[p] = "idle"
    /\ pc' = [pc EXCEPT ![p] = "o_created"]
    /\ IF ValidBigint(number)
       THEN LET n == Bigint(number)
                after == OnConflictDoNothing(orders, n, NewOrderRow(orders, userID))
            IN /\ orders' = after
               /\ call' = [call EXCEPT ![p] = [NoCall EXCEPT !.number = number,
                                                             !.userID = userID,
                                                             !.returned = Returning(orders, n, after)]]
               /\ result' = [result EXCEPT ![p] = ErrNil]
       ELSE /\ orders' = orders
            /\ call' = [call EXCEPT ![p] = [NoCall EXCEPT !.number = number, !.userID = userID]]
            /\ result' = [result EXCEPT ![p] = ErrDB]
    /\ UNCHANGED <<users, ledger, tx, orderList, order, req, hist, poll>>

\* orders.GetByNumber(number) for the number just passed to Create
OrdersGetByNumber(p) ==
    /\ pc[p] = "o_created"
    /\ pc' = [pc EXCEPT ![p] = "o_got"]
    /\ IF ValidBigint(call[p].number)
       THEN /\ call' = [call EXCEPT ![p].returned = Scan(orders, Bigint(call[p].number))]
            /\ result' = [result EXCEPT ![p] = ErrNil]
       ELSE /\ call' = [call EXCEPT ![p].returned = EmptyOrder]
            /\ result' = [result EXCEPT ![p] = ErrDB]
    /\ UNCHANGED <<users, orders, ledger, tx, orderList, order, req, hist, poll>>

\* the caller is done with the Order it got
OrdersDone(p) ==
    /\ pc[p] \in {"o_created", "o_got"}
    /\ pc' = [pc EXCEPT ![p] = "idle"]
    /\ UNCHANGED <<users, orders, ledger, tx, orderList, order, req, result, hist, poll, call>>

\* orders.Update by the poller: a stored order gets the status and accrual of
\* the accrual service's reply
OrdersUpdate(n, status, accrual) ==
    /\ n \in DOMAIN orders
    /\ status # orders[n].status
    /\ orders' = Update([number |-> n, status |-> status, accrual |-> accrual])
    /\ UNCHANGED <<users, ledger, tx, pc, orderList, order, req, result, hist, poll, call>>

InitOrders ==
    /\ users = [u \in Owners |-> ZeroUser]
    /\ orders = << >>
    /\ ledger = << >>
    /\ tx = [p \in Procs |-> NoTx]
    /\ pc = [p \in Procs |-> IF p = Poller THEN "loop" ELSE "idle"]
    /\ orderList = {}
    /\ order = NoOrder
    /\ req = [p \in Handlers |-> NoReq]
    /\ result = [p \in Procs |-> Pending]
    /\ hist = [p \in Procs |-> NoHist]
    /\ poll = NoPoll
    /\ call = [p \in Handlers |-> NoCall]

\* One caller of the orders package, as its tests are, with the stored rows
\* moving to PROCESSED 1 or INVALID in between.
NextOrders ==
    \/ \E number \in CreateNumbers, userID \in Owners : OrdersCreate("h1", number, userID)
    \/ OrdersGetByNumber("h1")
    \/ OrdersDone("h1")
    \/ \E n \in DOMAIN orders :
          \/ OrdersUpdate(n, StatusProcessed, Some(1))
          \/ OrdersUpdate(n, StatusInvalid, NULL)

SpecOrders == InitOrders /\ [][NextOrders]_vars

\* the Create step of task p
CreateStep(p) == pc[p] = "idle" /\ pc'[p] = "o_created" /\ result'[p] = ErrNil

\* C18: Create of a number that is stored returns the empty order and no
\* error and changes no row; Create of a number that is not stored adds
\* exactly the row (number, caller, NEW, NULL), returns it, and changes no
\* other row; GetByNumber returns the stored row of the number, so right after
\* such a Create it returns the same number, owner, status and accrual.
C18_CreateIdempotent ==
    [][\A p \in Handlers :
          /\ CreateStep(p) =>
                LET n == Bigint(call'[p].number) IN
                /\ n \in DOMAIN orders =>
                      /\ call'[p].returned = EmptyOrder
                      /\ orders' = orders
                /\ n \notin DOMAIN orders =>
                      /\ DOMAIN orders' = DOMAIN orders \cup {n}
                      /\ \A m \in DOMAIN orders : orders'[m] = orders[m]
                      /\ orders'[n].user_id = call'[p].userID
                      /\ orders'[n].status = StatusNew
                      /\ orders'[n].accrual = NULL
                      /\ Bigint(call'[p].returned.number) = n
                      /\ call'[p].returned.user_id = call'[p].userID
                      /\ call'[p].returned.status = StatusNew
                      /\ call'[p].returned.accrual = NULL
          /\ (pc[p] = "o_created" /\ pc'[p] = "o_got" /\ result[p] = ErrNil) =>
                LET n == Bigint(call[p].number) IN
                /\ result'[p] = ErrNil
                /\ orders' = orders
                /\ n \in DOMAIN orders
                /\ Bigint(call'[p].returned.number) = n
                /\ call'[p].returned.user_id = orders[n].user_id
                /\ call'[p].returned.status = orders[n].status
                /\ call'[p].returned.accrual = orders[n].accrual
                /\ (call[p].returned # EmptyOrder /\ orders[n].status = StatusNew)
                      => call'[p].returned = call[p].returned]_vars

\* C18 witness: Create of "018" by user 2 found order 18 stored by user 1 as
\* PROCESSED with accrual 1: it returned the empty order and the row is as
\* it was
C18_Witness ==
    /\ pc["h1"] = "o_created"
    /\ call["h1"].number = <<0, 1, 8>>
    /\ call["h1"].userID = 2
    /\ result["h1"] = ErrNil
    /\ call["h1"].returned = EmptyOrder
    /\ 18 \in DOMAIN orders
    /\ orders[18] = [user_id |-> 1, status |-> StatusProcessed, accrual |-> Some(1), uploaded_at |-> 1]

\* C18 witness of the insert: Create("-1", 1) inserted the row and GetByNumber
\* returned number "-1", owner 1, NEW, no accrual
C18_WitnessCreated ==
    /\ pc["h1"] = "o_got"
    /\ call["h1"].number = <<Minus, 1>>
    /\ call["h1"].returned.number = <<Minus, 1>>
    /\ call["h1"].returned.user_id = 1
    /\ call["h1"].returned.status = StatusNew
    /\ call["h1"].returned.accrual = NULL
    /\ result["h1"] = ErrNil

\* ============================================ controllers.RegisterOrder
\* bodies of POST /api/user/orders: "18", "018", "26" (Luhn-valid), "19"
\* (not Luhn-valid), "1x"
RegisterNumbers == {<<1, 8>>, <<0, 1, 8>>, <<2, 6>>, <<1, 9>>, <<1, Letter>>}

\* the loop of luhn.checksum: every second digit from the right doubled, the
\* digits of a double above 9 added
RECURSIVE ChecksumLoop(_, _)
ChecksumLoop(number, i) ==
    IF number > 0
    THEN LET cur == number % 10
             dbl == IF cur * 2 > 9 THEN ((cur * 2) % 10) + ((cur * 2) \div 10) ELSE cur * 2
         IN (IF i % 2 = 0 THEN dbl ELSE cur) + ChecksumLoop(number \div 10, i + 1)
    ELSE 0

\* luhn.checksum
Checksum(number) == ChecksumLoop(number, 0) % 10

\* luhn.Valid
LuhnValid(number) == ((number % 10) + Checksum(number \div 10)) % 10 = 0

\* (mutant) RegisterOrder without the comparison of the owners
OwnerErrorAlwaysExists(owner, userID) == ErrOrderAlreadyExists

\* RegisterOrder: order.UserID == create.UserID
OwnerError(owner, userID) ==
    IF owner = userID THEN ErrOrderAlreadyExists ELSE ErrOrderRegisteredByAnotherUser

\* handlerOrderRegister: the switch on RegisterOrder's error
StatusCode(err) ==
    CASE err = ErrNil -> 202
      [] err = ErrOrderAlreadyExists -> 200
      [] err = ErrOrderFormatIsWrong -> 422
      [] err = ErrOrderCreateFailure -> 400
      [] err = ErrOrderRegisteredByAnotherUser -> 409
      [] OTHER -> 400

\* RegisterOrder up to and including orders.Create: the regexp, Atoi and Luhn
\* checks, then the INSERT; a returned Number ends the call, the empty order
\* sends it on to GetByNumber
RegisterOrderCreate(p, number, userID) ==
    /\ pc[p] = "idle"
    /\ hist' = [hist EXCEPT ![p] = NoHist]
    /\ IF ~OnlyDigitsRe(number) \/ ~LuhnValid(DigitsValue(number))
       THEN /\ call' = [call EXCEPT ![p] = [NoCall EXCEPT !.number = number, !.userID = userID]]
            /\ result' = [result EXCEPT ![p] = ErrOrderFormatIsWrong]
            /\ pc' = [pc EXCEPT ![p] = "r_ret"]
            /\ orders' = orders
       ELSE LET n == Bigint(number)
                after == OnConflictDoNothing(orders, n, NewOrderRow(orders, userID))
                o == Returning(orders, n, after)
            IN /\ orders' = after
               /\ call' = [call EXCEPT ![p] = [NoCall EXCEPT !.number = number,
                                                             !.userID = userID,
                                                             !.returned = o]]
               /\ IF Len(o.number) > 0
                  THEN /\ result' = [result EXCEPT ![p] = ErrNil]
                       /\ pc' = [pc EXCEPT ![p] = "r_ret"]
                  ELSE /\ result' = [result EXCEPT ![p] = Pending]
                       /\ pc' = [pc EXCEPT ![p] = "r_get"]
    /\ UNCHANGED <<users, ledger, tx, orderList, order, req, poll>>

\* orders.Create fails on a database fault: RegisterOrder returns the error
RegisterOrderCreateError(p, number, userID) ==
    /\ pc[p] = "idle"
    /\ OnlyDigitsRe(number) /\ LuhnValid(DigitsValue(number))
    /\ hist' = [hist EXCEPT ![p] = NoHist]
    /\ call' = [call EXCEPT ![p] = [NoCall EXCEPT !.number = number, !.userID = userID]]
    /\ result' = [result EXCEPT ![p] = ErrDB]
    /\ pc' = [pc EXCEPT ![p] = "r_ret"]
    /\ UNCHANGED <<users, orders, ledger, tx, orderList, order, req, poll>>

\* RegisterOrder after the conflict: GetByNumber and the comparison of owners
RegisterOrderGetByNumber(p) ==
    /\ pc[p] = "r_get"
    /\ LET o == Scan(orders, Bigint(call[p].number))
       IN /\ call' = [call EXCEPT ![p].returned = o]
          /\ result' = [result EXCEPT ![p] =
                           IF Len(o.number) = 0
                           THEN ErrOrderCreateFailure
                           ELSE OwnerError(o.user_id, call[p].userID)]
    /\ pc' = [pc EXCEPT ![p] = "r_ret"]
    /\ UNCHANGED <<users, orders, ledger, tx, orderList, order, req, hist, poll>>

\* GetByNumber fails on a database fault
RegisterOrderGetByNumberError(p) ==
    /\ pc[p] = "r_get"
    /\ result' = [result EXCEPT ![p] = ErrDB]
    /\ pc' = [pc EXCEPT ![p] = "r_ret"]
    /\ UNCHANGED <<users, orders, ledger, tx, orderList, order, req, hist, poll, call>>

\* handlerOrderRegister answers
HandlerOrderRegister(p) ==
    /\ pc[p] = "r_ret"
    /\ call' = [call EXCEPT ![p].code = StatusCode(result[p])]
    /\ pc' = [pc EXCEPT ![p] = "idle"]
    /\ UNCHANGED <<users, orders, ledger, tx, orderList, order, req, result, hist, poll>>

\* Two HTTP tasks serving POST /api/user/orders of the two users.
NextRegister ==
    \E p \in Handlers :
       \/ \E number \in RegisterNumbers, userID \in Owners :
             \/ RegisterOrderCreate(p, number, userID)
             \/ RegisterOrderCreateError(p, number, userID)
       \/ RegisterOrderGetByNumber(p)
       \/ RegisterOrderGetByNumberError(p)
       \/ HandlerOrderRegister(p)

SpecRegister == InitOrders /\ [][NextRegister]_vars

\* the number was accepted by the checks of RegisterOrder
Accepted(number) == OnlyDigitsRe(number) /\ LuhnValid(DigitsValue(number))

\* C19: with no database fault, RegisterOrder of an accepted number returns
\* nil exactly when the number was not stored, and the row then belongs to the
\* caller; when it was stored it returns ErrOrderAlreadyExists to the owner
\* and ErrOrderRegisteredByAnotherUser to anyone else; the handler answers
\* 202, 200 and 409 to these; the owner of a stored order never changes; of
\* two answered requests for one number at most one is a 202, and the order
\* belongs to its user.
C19_RegisterOrderOutcome ==
    [][/\ \A p \in Handlers :
             /\ (pc[p] = "idle" /\ pc'[p] # "idle" /\ Accepted(call'[p].number)
                    /\ result'[p] # ErrDB) =>
                   LET n == Bigint(call'[p].number) IN
                   /\ (result'[p] = ErrNil) <=> (n \notin DOMAIN orders)
                   /\ n \notin DOMAIN orders =>
                         /\ pc'[p] = "r_ret"
                         /\ orders'[n].user_id = call'[p].userID
                   /\ n \in DOMAIN orders => pc'[p] = "r_get" /\ orders' = orders
             /\ (pc[p] = "r_get" /\ pc'[p] = "r_ret" /\ result'[p] # ErrDB) =>
                   LET n == Bigint(call[p].number) IN
                   /\ n \in DOMAIN orders
                   /\ orders' = orders
                   /\ (result'[p] = ErrOrderAlreadyExists) <=> (orders[n].user_id = call[p].userID)
                   /\ (result'[p] = ErrOrderRegisteredByAnotherUser) <=> (orders[n].user_id # call[p].userID)
             /\ (pc[p] = "r_ret" /\ pc'[p] = "idle") =>
                   /\ (call'[p].code = 202) <=> (result[p] = ErrNil)
                   /\ (call'[p].code = 200) <=> (result[p] = ErrOrderAlreadyExists)
                   /\ (call'[p].code = 409) <=> (result[p] = ErrOrderRegisteredByAnotherUser)
             /\ call'[p].code = 202 =>
                   /\ Bigint(call'[p].number) \in DOMAIN orders'
                   /\ orders'[Bigint(call'[p].number)].user_id = call'[p].userID
       /\ \A n \in DOMAIN orders :
             n \in DOMAIN orders' /\ orders'[n].user_id = orders[n].user_id
       /\ \A p, q \in Handlers :
             (/\ p # q
              /\ call'[p].code = 202
              /\ call'[q].code = 202)
                => Bigint(call'[p].number) # Bigint(call'[q].number)]_vars

\* C19 witness: users 1 and 2 both submitted the new number 18 ("18" and
\* "018") while neither request had finished; user 2 got 202 and owns the
\* order, user 1 got 409
C19_Witness ==
    /\ call["h1"].number = <<1, 8>> /\ call["h1"].userID = 1
    /\ call["h2"].number = <<0, 1, 8>> /\ call["h2"].userID = 2
    /\ call["h1"].code = 409
    /\ call["h2"].code = 202
    /\ DOMAIN orders = {18}
    /\ orders[18].user_id = 2

\* C19 witness of the resubmission: user 1 submitted 26 twice and got 200
C19_WitnessSameUser ==
    /\ call["h1"].number = <<2, 6>> /\ call["h1"].userID = 1
    /\ call["h1"].code = 200
    /\ orders[26].user_id = 1
    /\ call["h2"].number = << >>

\* ======================================== Accrue and Withdraw concurrently
\* User 1 was credited B + W for order 1 and, when W = 1, task h2 has just
\* committed a withdrawal of W and not answered yet; order 2 of the user is
\* NEW.  The poller and task h1 are about to run.
InitAW ==
    \E B \in 1..MaxBalance, W \in 0..1 :
        /\ users = [u \in {1} |-> [balance |-> B, withdrawn |-> W]]
        /\ orders = [n \in {1, 2} |->
                        IF n = 1
                        THEN [user_id |-> 1, status |-> StatusProcessed, accrual |-> Some(B + W)]
                        ELSE [user_id |-> 1, status |-> StatusNew, accrual |-> NULL]]
        /\ ledger = <<[user_id |-> 1, order_number |-> 1,
                       operation |-> TransactionDebit, value |-> B + W]>>
                    \o (IF W = 0 THEN << >>
                        ELSE <<[user_id |-> 1, order_number |-> 2,
                                operation |-> TransactionCredit, value |-> W]>>)
        /\ tx = [p \in Procs |-> NoTx]
        /\ pc = [p \in Procs |-> IF p = Poller THEN "loop"
                                 ELSE IF p = "h2" /\ W # 0 THEN "w_ret" ELSE "idle"]
        /\ orderList = {}
        /\ order = NoOrder
        /\ req = [p \in Handlers |->
                     IF p = "h2" /\ W # 0
                     THEN [userID |-> 1, orderNumber |-> 2, sum |-> W]
                     ELSE NoReq]
        /\ result = [p \in Procs |-> IF p = "h2" /\ W # 0 THEN ErrNil ELSE Pending]
        /\ hist = [p \in Procs |-> NoHist]
        /\ poll = NoPoll
        /\ call = [p \in Handlers |-> NoCall]

\* The poller, whose accrual service answers PROCESSED with a positive
\* accrual or nothing usable, and one Withdraw of task h1; no database fault.
\* Both stop at the return of their call.
NextAW ==
    /\ \/ ProcessOrdersGetList
       \/ ProcessOrdersEndOfPass
       \/ \E o \in orderList : ProcessOrdersSkip(o)
       \/ \E o \in orderList, a \in 1..MaxBalance :
             ProcessOrdersAccrue(o, StatusProcessed, Some(a))
       \/ AccrueUpdate
       \/ AccrueUser
       \/ AccrueLedger
       \/ AccrueCommit
       \/ \E n \in WithdrawNumbers, sum \in Sums : WithdrawFromUser("h1", 1, n, sum)
       \/ WithdrawNext("h1")
    /\ UNCHANGED <<poll, call>>

SpecAW == InitAW /\ [][NextAW]_vars

\* W and B of the state the two calls start from
InitialWithdrawn == req["h2"].sum
InitialBalance == Val(orders[1].accrual) - InitialWithdrawn

\* C20: when the Accrue of a > 0 and the Withdraw of s <= B have both
\* returned, whatever the order of their steps, both returned nil, the balance
\* is B + a - s and withdrawn is W + s; and a call that holds the lock of the
\* users row never waits for the other.
C20_AccrueAndWithdrawBothApply ==
    /\ (/\ pc[Poller] = "a_ret"
        /\ pc["h1"] = "w_ret"
        /\ OnlyDigits(req["h1"].orderNumber)
        /\ req["h1"].sum \in 1..InitialBalance)
          => /\ Val(order.accrual) > 0
             /\ result[Poller] = ErrNil
             /\ result["h1"] = ErrNil
             /\ users[1].balance = InitialBalance + Val(order.accrual) - req["h1"].sum
             /\ users[1].withdrawn = InitialWithdrawn + req["h1"].sum
    /\ \A p \in Procs :
          (tx[p].open /\ tx[p].user # 0) =>
              pc[p] \in {"a_ledger", "a_commit", "w_ledger", "w_commit"}

\* C20 witness: the Withdraw of 1 updated the row and holds its lock while
\* the Accrue of 2 is at its UPDATE users (it waits)
C20_WitnessRace ==
    /\ pc[Poller] = "a_user"
    /\ pc["h1"] = "w_ledger"
    /\ LockedByOther(Poller, 1)
    /\ order.accrual = Some(2)
    /\ req["h1"].sum = 1

\* C20 witness: both have returned nil, from balance 1 and withdrawn 1 with
\* a = 2 and s = 1: balance 2, withdrawn 2
C20_Witness ==
    /\ pc[Poller] = "a_ret"
    /\ pc["h1"] = "w_ret"
    /\ result[Poller] = ErrNil
    /\ result["h1"] = ErrNil
    /\ InitialBalance = 1
    /\ InitialWithdrawn = 1
    /\ order.accrual = Some(2)
    /\ req["h1"].sum = 1
    /\ users[1] = [balance |-> 2, withdrawn |-> 2]

\* ================================================== accruals of either sign
\* accrualResponse.Accrual is a *decimal.Decimal: the body's number is taken
\* as it is, whatever its sign
SignedAccruals == {Some(0 - 1), Some(1)}

\* The whole program with an accrual service whose 200 bodies carry accrual
\* -1 or 1.
NextSigned ==
    /\ \/ CreateUser
       \/ \E u \in DOMAIN users : RegisterOrder(1, u)
       \/ PollerNext(SignedAccruals)
       \/ \E u \in DOMAIN users, n \in WithdrawNumbers, s \in Sums :
             Room /\ WithdrawFromUser("h1", u, n, s)
       \/ WithdrawNext("h1")
       \/ WithdrawReturn("h1")
       \/ WithdrawDBError("h1")
    /\ UNCHANGED <<poll, call>>

SpecSigned == Init /\ [][NextSigned]_vars

\* C21: in every state every user's committed balance and withdrawn are not
\* negative.
C21_BalanceAndWithdrawnNotNegative ==
    \A u \in DOMAIN users : users[u].balance >= 0 /\ users[u].withdrawn >= 0

\* C22: in every state a stored order with an accrual has status PROCESSED.
C22_AccrualOnlyWhenProcessed ==
    \A n \in DOMAIN orders : orders[n].accrual # NULL => orders[n].status = StatusProcessed

\* ================================================ register and login
\* logins and passwords of the request bodies; "" is an empty field
Logins == {"", "alice", "bob"}
Passwords == {"", "p1", "p2"}

\* users.HashPassword: "1:" and the base64 of the Argon2id key of the
\* password, a deterministic function of the password taken as free of
\* collisions
HashPassword(password) == "1:" \o password

\* users.CheckPassword
CheckPassword(u, password) == u.password = HashPassword(password)

\* users.GetByLogin: the row with the login (the index on login is unique),
\* 0 for the empty User
GetByLogin(login) ==
    IF \E id \in DOMAIN users : users[id].login = login
    THEN CHOOSE id \in DOMAIN users : users[id].login = login
    ELSE 0

\* setAuthCookie: the signed cookie whoami with the base64 of the login
AuthCookie(login) == Some("whoami=" \o login)

\* parseUserRequest: both fields must be non-empty
ParseUserRequest(login, password) == login # "" /\ password # ""

ErrWrongAuth == "ErrWrongAuth"
ErrLoginTaken == "ErrLoginTaken"

\* controllers.AuthUser
AuthUser(login, password) ==
    IF GetByLogin(login) = 0 THEN ErrWrongAuth
    ELSE IF ~CheckPassword(users[GetByLogin(login)], password) THEN ErrWrongAuth
    ELSE ErrNil

\* handlerUserLogin: the status it answers AuthUser's error with
LoginStatusCode(err) ==
    CASE err = ErrWrongAuth -> 409
      [] err = ErrNil -> 200
      [] OTHER -> 400

\* handlerUserRegister: parseUserRequest, controllers.CreateUser (INSERT ...
\* ON CONFLICT DO NOTHING on the unique login), cookie and 200, or 409 when
\* the login is taken
HandlerUserRegister(p, login, password) ==
    /\ pc[p] = "idle"
    /\ pc' = [pc EXCEPT ![p] = "u_ret"]
    /\ LET c == [NoCall EXCEPT !.login = login, !.password = password]
           id == Cardinality(DOMAIN users) + 1
       IN IF ~ParseUserRequest(login, password)
          THEN /\ call' = [call EXCEPT ![p] = [c EXCEPT !.code = 400]]
               /\ users' = users
          ELSE IF GetByLogin(login) # 0
          THEN /\ call' = [call EXCEPT ![p] = [c EXCEPT !.code = 409]]
               /\ users' = users
          ELSE /\ users' = [u \in DOMAIN users \cup {id} |->
                               IF u = id
                               THEN [balance |-> 0, withdrawn |-> 0, login |-> login,
                                     password |-> HashPassword(password)]
                               ELSE users[u]]
               /\ call' = [call EXCEPT ![p] = [c EXCEPT !.code = 200,
                                                        !.cookie = AuthCookie(login)]]
    /\ UNCHANGED <<orders, ledger, tx, orderList, order, req, result, hist, poll>>

\* handlerUserLogin: parseUserRequest, controllers.AuthUser, then the answer
HandlerUserLogin(p, login, password) ==
    /\ pc[p] = "idle"
    /\ pc' = [pc EXCEPT ![p] = "l_ret"]
    /\ LET c == [NoCall EXCEPT !.login = login, !.password = password]
       IN IF ~ParseUserRequest(login, password)
          THEN call' = [call EXCEPT ![p] = [c EXCEPT !.code = 400]]
          ELSE call' = [call EXCEPT ![p] =
                           [c EXCEPT !.code = LoginStatusCode(AuthUser(login, password)),
                                     !.cookie = IF AuthUser(login, password) = ErrNil
                                                THEN AuthCookie(login) ELSE NULL]]
    /\ UNCHANGED <<users, orders, ledger, tx, orderList, order, req, result, hist, poll>>

\* users.GetByLogin fails on a database fault: handlerUserLogin answers 400
HandlerUserLoginDBError(p, login, password) ==
    /\ pc[p] = "idle"
    /\ ParseUserRequest(login, password)
    /\ pc' = [pc EXCEPT ![p] = "l_ret"]
    /\ call' = [call EXCEPT ![p] = [NoCall EXCEPT !.login = login, !.password = password,
                                                  !.code = LoginStatusCode(ErrDB)]]
    /\ UNCHANGED <<users, orders, ledger, tx, orderList, order, req, result, hist, poll>>

\* the answer is sent
HandlerUserDone(p) ==
    /\ pc[p] \in {"u_ret", "l_ret"}
    /\ pc' = [pc EXCEPT ![p] = "idle"]
    /\ UNCHANGED <<users, orders, ledger, tx, orderList, order, req, result, hist, poll, call>>

\* Two HTTP tasks serving POST /api/user/register and POST /api/user/login.
NextLogin ==
    \E p \in Handlers :
       \/ \E login \in Logins, password \in Passwords :
             \/ HandlerUserRegister(p, login, password)
             \/ HandlerUserLogin(p, login, password)
             \/ HandlerUserLoginDBError(p, login, password)
       \/ HandlerUserDone(p)

SpecLogin == Init /\ [][NextLogin]_vars

\* the stored credentials match the request's
CredentialsMatch(login, password) ==
    \E id \in DOMAIN users : /\ users[id].login = login
                             /\ users[id].password = HashPassword(password)

\* C23: a login request with non-empty fields that match no stored
\* credentials is answered 401 without an auth cookie; 200 and the cookie
\* are given only to matching credentials.
C23_WrongCredentialsAnswered401 ==
    [][\A p \in Handlers :
          (pc[p] = "idle" /\ pc'[p] = "l_ret"
              /\ ParseUserRequest(call'[p].login, call'[p].password)
              /\ call'[p].code # LoginStatusCode(ErrDB)) =>
             /\ ~CredentialsMatch(call'[p].login, call'[p].password) =>
                   call'[p].code = 401 /\ call'[p].cookie = NULL
             /\ (call'[p].code = 200 \/ call'[p].cookie # NULL) =>
                   CredentialsMatch(call'[p].login, call'[p].password)]_vars

\* what does hold of the login of the revision of cmd/gophermart: the same
\* with 409 for 401
LoginAnswers409 ==
    [][\A p \in Handlers :
          (pc[p] = "idle" /\ pc'[p] = "l_ret"
              /\ ParseUserRequest(call'[p].login, call'[p].password)
              /\ call'[p].code # LoginStatusCode(ErrDB)) =>
             /\ ~CredentialsMatch(call'[p].login, call'[p].password) =>
                   call'[p].code = 409 /\ call'[p].cookie = NULL
             /\ CredentialsMatch(call'[p].login, call'[p].password) =>
                   call'[p].code = 200 /\ call'[p].cookie = AuthCookie(call'[p].login)]_vars

\* ------------------------------------------------ C24, C25: atomicity
\* task p is inside the Transaction of its Accrue / Withdraw call: the
\* transaction has not committed
InsideTransaction(p) ==
    pc[p] \in {"a_update", "a_user", "a_ledger", "a_commit",
               "w_select", "w_update", "w_ledger", "w_commit"}

\* C24: while the transaction of an Accrue or Withdraw call has not
\* committed, the committed tables, which are what every other session
\* reads, show none of the call's effects: no ledger row of the call, and
\* for Accrue the order row as it was at the call.
C24_EffectsVisibleAtCommitOnly ==
    \A p \in Procs :
        InsideTransaction(p) =>
            /\ hist[p].added = {}
            /\ (p = Poller /\ hist[p].preOrder # << >>) =>
                  orders[order.number] = hist[p].preOrder[1]

\* C25: when Withdraw has returned an error, no ledger row appended by the
\* call is in the ledger, and the user's row is as the call's UPDATE found
\* it (as it was all along, when the call did not reach its UPDATE).
C25_WithdrawAllOrNothing ==
    \A p \in Handlers :
        (pc[p] = "w_ret" /\ result[p] # ErrNil) =>
            /\ hist[p].added = {}
            /\ hist[p].preUser # << >> => users[req[p].userID] = hist[p].preUser[1]

\* ============================================ the poller and its replies
\* a 200 answer whose body parses: it names order "1", "2" or "01", with any
\* status, and an accrual when the status is PROCESSED
UsableReplies ==
    {[NoReply EXCEPT !.code = 200, !.parses = TRUE, !.order = n, !.status = st,
                     !.accrual = IF st = StatusProcessed THEN Some(1) ELSE NULL] :
        n \in {<<1>>, <<2>>, <<0, 1>>}, st \in ReplyStatuses}

\* answers of the accrual service: the failed request, a 200 whose body does
\* not parse, the usable ones, and 204, 429 and 500 with a body that would
\* be usable
Replies ==
    {[NoReply EXCEPT !.transportError = TRUE], [NoReply EXCEPT !.code = 200]}
    \cup UsableReplies
    \cup {[NoReply EXCEPT !.code = c, !.parses = TRUE, !.order = <<1>>,
                          !.status = StatusProcessed, !.accrual = Some(1)] :
             c \in {204, 429, 500}}

\* (mutant) the poller without its test of the body's order number
NumberNeverDiffers(o, reply) == FALSE

\* `data.OrderNumber != order.Number`: strings, order.Number is number::text
NumberDiffers(o, reply) == reply.order # Text(o.number)

\* ProcessOrders from http.Get to the call of Accrue: TRUE when none of the
\* `continue toNextOrder` before it is taken
CallsAccrue(o, reply) ==
    IF reply.transportError THEN FALSE
    ELSE IF reply.code # 200 THEN FALSE
    ELSE IF ~reply.parses THEN FALSE
    ELSE IF NumberDiffers(o, reply) THEN FALSE
    ELSE StatusChanged(o, reply.status)

\* ProcessOrders, one order of the list and the answer to its request
ProcessOrdersReply(o, reply) ==
    /\ IF CallsAccrue(o, reply)
       THEN ProcessOrdersAccrue(o, reply.status, reply.accrual)
       ELSE ProcessOrdersSkip(o)
    /\ poll' = [poll EXCEPT !.reply = reply, !.polled = o.number]

\* The poller over two orders with every answer of Replies, database faults
\* included.
NextReplies ==
    /\ \/ (CreateUser /\ UNCHANGED poll)
       \/ \E n \in OrderNumbers, u \in DOMAIN users : RegisterOrder(n, u) /\ UNCHANGED poll
       \/ (ProcessOrdersGetList /\ UNCHANGED poll)
       \/ (ProcessOrdersGetListError /\ UNCHANGED poll)
       \/ (ProcessOrdersEndOfPass /\ UNCHANGED poll)
       \/ \E o \in orderList, reply \in Replies :
             (CallsAccrue(o, reply) => Room) /\ ProcessOrdersReply(o, reply)
       \/ ((AccrueUpdate \/ AccrueUser \/ AccrueLedger \/ AccrueCommit \/ AccrueDBError
              \/ AccrueReturn) /\ UNCHANGED poll)
    /\ UNCHANGED call

SpecReplies == Init /\ [][NextReplies]_vars

\* the poller handles the answer to the request for one order
ReplyStep == pc[Poller] = "iter" /\ orderList' # orderList

\* C26: the poller enters Accrue for a polled order only on an answer with
\* status 200, a body that parses, the order's own number in it and a status
\* other than the stored one; on every other answer the users, orders and
\* ledger tables and the poller's transaction are as before.
C26_AccrueOnlyOnUsableReply ==
    [][ReplyStep =>
          LET r == poll'.reply
              n == poll'.polled
          IN /\ pc'[Poller] = "a_update" =>
                   /\ ~r.transportError
                   /\ r.code = 200
                   /\ r.parses
                   /\ r.order = Text(n)
                   /\ n \in DOMAIN orders
                   /\ r.status # orders[n].status
             /\ pc'[Poller] # "a_update" =>
                   /\ users' = users
                   /\ orders' = orders
                   /\ ledger' = ledger
                   /\ tx' = tx
             /\ (r.transportError \/ r.code # 200 \/ ~r.parses \/ r.order # Text(n)
                    \/ r.status = orders[n].status) => pc'[Poller] # "a_update"]_vars

\* C26 witness: order 1, stored PROCESSING, was answered 200 with order "1"
\* and status PROCESSING: the poller went on without Accrue
C26_Witness ==
    /\ pc[Poller] = "iter"
    /\ poll.polled = 1
    /\ poll.reply.code = 200
    /\ poll.reply.parses
    /\ poll.reply.order = <<1>>
    /\ poll.reply.status = StatusProcessing
    /\ orders[1].status = StatusProcessing
    /\ orders[1].accrual = NULL
    /\ ledger = << >>

\* C26 witness of the call: order 1, stored NEW, answered 200 with order "1"
\* and PROCESSED: the poller is in Accrue
C26_WitnessAccrue ==
    /\ pc[Poller] = "a_update"
    /\ poll.polled = 1
    /\ poll.reply.code = 200
    /\ poll.reply.order = <<1>>
    /\ poll.reply.status = StatusProcessed
    /\ orders[1].status = StatusNew

\* ------------------------------------------------- C27: the poller goes on
\* a step of the poller that changes its state: everything but the failed
\* fetch, whose `continue` leaves it where it was
PollerProgress ==
    /\ \/ (ProcessOrdersGetList /\ UNCHANGED poll)
       \/ (ProcessOrdersEndOfPass /\ UNCHANGED poll)
       \/ \E o \in orderList, reply \in Replies :
             (CallsAccrue(o, reply) => Room) /\ ProcessOrdersReply(o, reply)
       \/ ((AccrueUpdate \/ AccrueUser \/ AccrueLedger \/ AccrueCommit \/ AccrueDBError
              \/ AccrueReturn) /\ UNCHANGED poll)
    /\ UNCHANGED call

\* The poller of SpecReplies as a goroutine that is scheduled again and
\* again, with a database whose statements end (each runs under
\* db.QueryTimeout) and do not fail forever, and an accrual service whose
\* requests end, in an answer or in an error.
SpecLive == Init /\ [][NextReplies]_vars /\ WF_vars(PollerProgress)

\* the poller handles the answer to a request for order n
RequestFor(n) == ReplyStep /\ poll'.polled = n

\* order n is stored with a status that is neither INVALID nor PROCESSED
NonTerminal(n) ==
    n \in DOMAIN orders /\ orders[n].status \notin {StatusInvalid, StatusProcessed}

Decimals == [v \in {"0", "1", "2", "3", "4"} |->
                CASE v = "0" -> 0 [] v = "1" -> 1 [] v = "2" -> 2 [] v = "3" -> 3 [] v = "4" -> 4]

\* values of res.Header.Get("Retry-After"): absent, an HTTP date, seconds
RetryAfterHeaders ==
    {"", "Wed, 21 Oct 2026 07:28:00 GMT"}
    \cup {v \in DOMAIN Decimals : Decimals[v] <= MaxRetryAfter}

\* strconv.Atoi: <<n>>, or NULL when it returns an error
Atoi(v) == IF v \in DOMAIN Decimals THEN Some(Decimals[v]) ELSE NULL

\* (mutant) a switch that takes the 429 branch for every status code
AlwaysTooManyRequests(code) == TRUE

\* `case http.StatusTooManyRequests`
TooManyRequests(code) == code = 429

\* the seconds the poller sleeps in the switch on the status code: those of a
\* Retry-After that Atoi accepts, on a 429
BackoffSleep(reply) ==
    IF reply.transportError THEN 0
    ELSE IF TooManyRequests(reply.code) /\ Atoi(reply.retryAfter) # NULL
    THEN RetryAfterSleep(Val(Atoi(reply.retryAfter)))
    ELSE 0

\* answers with every Retry-After header: 429, 204 and 500, and a usable 200
\* that reports PROCESSING
HeaderReplies ==
    {[NoReply EXCEPT !.code = c, !.retryAfter = h] :
        c \in {429, 204, 500}, h \in RetryAfterHeaders}
    \cup {[NoReply EXCEPT !.code = 200, !.retryAfter = h, !.parses = TRUE,
                          !.order = Text(n), !.status = StatusProcessing] :
             n \in OrderNumbers, h \in RetryAfterHeaders}

\* http.Get for order o after its one-second sleep, and the handling of the
\* answer with its sleeps
TimedReply(o, reply) ==
    /\ Awake
    /\ IF CallsAccrue(o, reply)
       THEN /\ ProcessOrdersAccrue(o, reply.status, reply.accrual)
            /\ poll' = [poll EXCEPT !.reply = reply, !.polled = o.number,
                                    !.retryAfter = NULL]
       ELSE /\ ProcessOrdersSkip(o)
            /\ poll' = [poll EXCEPT
                          !.reply = reply, !.polled = o.number,
                          !.wait = BackoffSleep(reply) + NextOrderSleep(orderList'),
                          !.quiet = IF BackoffSleep(reply) > 0 THEN BackoffSleep(reply) ELSE @,
                          !.retryAfter = IF TooManyRequests(reply.code)
                                         THEN Atoi(reply.retryAfter) ELSE NULL,
                          !.backoff = @ \/ (TooManyRequests(reply.code)
                                              /\ Atoi(reply.retryAfter) # NULL)]

\* The poller with its sleeps over two orders, every answer carrying any
\* Retry-After header.
NextRetryAfter ==
    /\ \/ Tick
       \/ CreateUser /\ UNCHANGED poll
       \/ \E n \in OrderNumbers, u \in DOMAIN users : RegisterOrder(n, u) /\ UNCHANGED poll
       \/ TimedGetList
       \/ TimedGetListError
       \/ TimedEndOfPass
       \/ \E o \in orderList, reply \in HeaderReplies : TimedReply(o, reply)
       \/ (AccrueUpdate \/ AccrueUser \/ AccrueDBError) /\ UNCHANGED poll
       \/ TimedAccrueReturn
    /\ UNCHANGED call

SpecRetryAfter == Init /\ [][NextRetryAfter]_vars

\* C28: after a 429 whose Retry-After is absent or no integer the poller
\* sleeps only the second before the next order, drops only the current
\* order from the pass and calls nothing; after an answer with another
\* status the time to the next request is the same whatever its Retry-After.
C28_NoBackoffWithoutIntegerRetryAfter ==
    [][ReplyStep =>
          LET r == poll'.reply
          IN /\ (r.code = 429 /\ r.retryAfter \notin DOMAIN Decimals) =>
                   /\ poll'.wait = NextOrderSleep(orderList')
                   /\ orderList' = {x \in orderList : x.number # poll'.polled}
                   /\ pc'[Poller] = "iter"
                   /\ <<users, orders, ledger, tx>>' = <<users, orders, ledger, tx>>
             /\ r.code # 429 =>
                   /\ pc'[Poller] = "iter" => poll'.wait = NextOrderSleep(orderList')
                   /\ pc'[Poller] # "iter" => poll'.wait = poll.wait
                   /\ poll'.quiet = poll.quiet]_vars

\* C28 witness: the first of two orders was answered 429 with an HTTP date in
\* Retry-After; the poller is in the one-second sleep before the second
C28_Witness ==
    /\ pc[Poller] = "iter"
    /\ poll.reply.code = 429
    /\ poll.reply.retryAfter = "Wed, 21 Oct 2026 07:28:00 GMT"
    /\ poll.wait = 1
    /\ Cardinality(orderList) = 1
    /\ Cardinality(DOMAIN orders) = 2

\* C28 witness of the other half: a 204 with Retry-After 2 was followed by
\* the one-second sleep only
C28_WitnessNon429 ==
    /\ pc[Poller] = "iter"
    /\ poll.reply.code = 204
    /\ poll.reply.retryAfter = "2"
    /\ poll.wait = 1
    /\ poll.quiet = 0
    /\ Cardinality(orderList) = 1

\* C29: every row of the ledger has a value above zero.
C29_LedgerValuesPositive ==
    \A i \in 1..Len(ledger) : ledger[i].value > 0

\* ================================================ WithdrawFromUser, its checks
\* the "order" fields of withdraw requests: "2", "02", "", "-1", "1x"
WithdrawTexts == {<<2>>, <<0, 2>>, << >>, <<Minus, 1>>, <<1, Letter>>}
\* the "sum" fields of withdraw requests
SignedSums == {0 - 1} \cup Sums

\* (mutant) a check of the sum that lets zero pass
IsNotNegative(sum) == sum >= 0

\* decimal.Decimal.IsPositive
IsPositive(sum) == sum > 0

\* controllers.WithdrawFromUser(userID, orderNumber, sum) with the order number
\* as the string it is: the regexp and the sign of the sum, then users.Withdraw,
\* which opens the transaction
WithdrawFromUserText(p, userID, orderNumber, sum) ==
    /\ pc[p] = "idle"
    /\ call' = [call EXCEPT ![p] = [NoCall EXCEPT !.number = orderNumber, !.userID = userID]]
    /\ hist' = [hist EXCEPT ![p] = NoHist]
    /\ IF ~OnlyDigitsRe(orderNumber) \/ ~IsPositive(sum)
       THEN /\ req' = [req EXCEPT ![p] = [NoReq EXCEPT !.userID = userID, !.sum = sum]]
            /\ result' = [result EXCEPT ![p] = ErrRequestIsWrong]
            /\ pc' = [pc EXCEPT ![p] = "w_ret"]
            /\ UNCHANGED tx
       ELSE /\ req' = [req EXCEPT ![p] = [userID |-> userID,
                                          orderNumber |-> Bigint(orderNumber), sum |-> sum]]
            /\ result' = [result EXCEPT ![p] = Pending]
            /\ pc' = [pc EXCEPT ![p] = "w_select"]
            /\ Begin(p)
    /\ UNCHANGED <<users, orders, ledger, orderList, order, poll>>

\* Two HTTP tasks serving withdraw requests of user 1 with any order field
\* and any sum, database faults included.
NextWithdrawText ==
    \E p \in Handlers :
       \/ \E orderNumber \in WithdrawTexts, sum \in SignedSums :
             Room /\ WithdrawFromUserText(p, 1, orderNumber, sum)
       \/ (WithdrawNext(p) \/ WithdrawDBError(p) \/ WithdrawReturn(p)) /\ UNCHANGED <<poll, call>>

SpecWithdrawText == InitWW /\ [][NextWithdrawText]_vars

\* C30: a call of WithdrawFromUser whose sum is not above zero, or whose
\* order number is empty or has a character that is no ASCII digit, returns
\* ErrRequestIsWrong at once: no transaction is opened and users and ledger
\* are as before; every other call enters Withdraw.
C30_WrongRequestRejectedBeforeWithdraw ==
    [][\A p \in Handlers :
          (pc[p] = "idle" /\ pc'[p] # "idle") =>
             LET number == call'[p].number
                 wrong == \/ req'[p].sum <= 0
                          \/ Len(number) = 0
                          \/ \E i \in 1..Len(number) : number[i] \notin 0..9
             IN /\ wrong => /\ result'[p] = ErrRequestIsWrong
                            /\ pc'[p] = "w_ret"
                            /\ tx' = tx
                            /\ users' = users
                            /\ ledger' = ledger
                /\ ~wrong => /\ pc'[p] = "w_select"
                             /\ tx'[p].open
                             /\ result'[p] = Pending]_vars

\* C30 witness: the request {order: "1x", sum: 1} of a user with balance 2
\* was rejected; no transaction, the row and the ledger as before
C30_Witness ==
    /\ pc["h1"] = "w_ret"
    /\ call["h1"].number = <<1, Letter>>
    /\ req["h1"].sum = 1
    /\ result["h1"] = ErrRequestIsWrong
    /\ ~tx["h1"].open
    /\ users[1] = [balance |-> 2, withdrawn |-> 0]
    /\ Len(ledger) = 1

\* C30 witness of the sum: {order: "2", sum: 0} was rejected
C30_WitnessZeroSum ==
    /\ pc["h1"] = "w_ret"
    /\ call["h1"].number = <<2>>
    /\ req["h1"].sum = 0
    /\ result["h1"] = ErrRequestIsWrong
    /\ ~tx["h1"].open

\* ================================== reads inside and outside a transaction
\* (mutant) a SELECT of the callback that goes to the pool instead of its
\* handle: it gets the committed row
CommittedRow(p, u) == users[u]

\* pg.Handle in the callback: db.tx is set, so QueryRow runs on the
\* transaction, which sees its own uncommitted write of the row
HandleRow(p, u) == IF tx[p].open /\ tx[p].user = u THEN tx[p].row ELSE users[u]

\* doWork reads on its handle: SELECT balance FROM users WHERE id = u
TxQueryRow(p, u) ==
    /\ pc[p] = "t_work"
    /\ u \in DOMAIN users
    /\ call' = [call EXCEPT ![p].seen = Some(HandleRow(p, u).balance)]
    /\ UNCHANGED <<users, orders, ledger, tx, pc, orderList, order, req, result, hist, poll>>

\* a statement outside any transaction, on the Store handle (pg.Handle with
\* db.tx nil is the pool): SELECT balance FROM users WHERE id = u.  The task
\* is idle or is inside a callback and bypasses the handle it was given.
PoolQueryRow(p, u) ==
    /\ pc[p] \in {"idle", "t_work"}
    /\ u \in DOMAIN users
    /\ call[p].outside = NULL
    /\ call' = [call EXCEPT ![p].outside = Some(users[u].balance)]
    /\ UNCHANGED <<users, orders, ledger, tx, pc, orderList, order, req, result, hist, poll>>

\* Two tasks run callbacks that write and read one users row through their
\* handle, while either task also reads the row on the Store handle.
NextRead ==
    \/ CreateUser /\ UNCHANGED <<poll, call>>
    \/ \E p \in Handlers :
          \/ TransactionCall(p)
          \/ TransactionBeginError(p)
          \/ \E u \in UserIds, b \in 1..MaxBalance : TxExec(p, u, b)
          \/ \E u \in UserIds : TxQueryRow(p, u)
          \/ \E u \in UserIds : PoolQueryRow(p, u)
          \/ \E err \in {ErrNil, ErrWork} : TxReturn(p, err)
          \/ TxCommit(p)
          \/ TxCommitError(p)
          \/ TxDone(p)

SpecRead == Init /\ [][NextRead]_vars

\* a task whose callback has written the row and whose transaction is neither
\* committed nor rolled back yet
Uncommitted(p) == pc[p] \in {"t_work", "t_commit"} /\ call[p].wrote # NULL

\* C31: a read the callback issues on its handle after a write on that handle
\* returns the value written, and a read issued on the Store handle while that
\* transaction is still open returns the row as it was before the write: the
\* written value reaches the committed table only by the Commit of a callback
\* that returned nil.
C31_ReadsOwnWritesOthersDoNot ==
    [][/\ \A p \in Handlers :
             /\ (call[p].seen = NULL /\ call'[p].seen # NULL /\ call[p].wrote # NULL)
                   => call'[p].seen = call[p].wrote
             /\ (call[p].outside = NULL /\ call'[p].outside # NULL) =>
                   \A q \in Handlers :
                      Uncommitted(q) => call'[p].outside = Some(hist[q].preUser[1].balance)
       /\ \A q \in Handlers :
             (Uncommitted(q) /\ users' # users) =>
                /\ pc[q] = "t_commit"
                /\ result'[q] = ErrNil
                /\ users'[1].balance = Val(call[q].wrote)]_vars

\* C31 witness: the callback of h1 wrote balance 2 and read 2 back on its
\* handle, while h2, outside the transaction, read the committed balance 0
C31_Witness ==
    /\ pc["h1"] = "t_work"
    /\ call["h1"].wrote = Some(2)
    /\ call["h1"].seen = Some(2)
    /\ pc["h2"] = "idle"
    /\ call["h2"].outside = Some(0)
    /\ users[1].balance = 0

\* C31 witness of the commit: after h1's transaction committed balance 2, a
\* read on the Store handle returns 2
C31_WitnessCommitted ==
    /\ pc["h1"] = "t_ret"
    /\ result["h1"] = ErrNil
    /\ call["h1"].wrote = Some(2)
    /\ call["h2"].outside = Some(2)

\* ===================================== transactions on the shared Store
\* db.Transaction(ctx, doWork) called on the Store handle by a task that is in
\* no transaction: the `db.tx != nil` test of that handle, then conn.Begin and
\* doWork on a copy of the handle bound to the new transaction
TransactionOnStore(p) ==
    /\ pc[p] = "idle"
    /\ IF InTransaction(PoolHandle)
       THEN /\ result' = [result EXCEPT ![p] = ErrNestedTransaction]
            /\ pc' = [pc EXCEPT ![p] = "t_ret"]
            /\ UNCHANGED tx
       ELSE /\ Begin(p)
            /\ result' = [result EXCEPT ![p] = Pending]
            /\ pc' = [pc EXCEPT ![p] = "t_work"]
    /\ hist' = [hist EXCEPT ![p] = NoHist]
    /\ call' = [call EXCEPT ![p] = NoCall]
    /\ UNCHANGED <<users, orders, ledger, orderList, order, req, poll>>

\* Two tasks call Transaction on the one Store handle at any time, one after
\* the other or while the other's callback is running.
NextStore ==
    \/ CreateUser /\ UNCHANGED <<poll, call>>
    \/ \E p \in Handlers :
          \/ TransactionOnStore(p)
          \/ TransactionBeginError(p)
          \/ \E u \in UserIds, b \in 1..MaxBalance : TxExec(p, u, b)
          \/ TxNested(p)
          \/ \E err \in {ErrNil, ErrWork} : TxReturn(p, err)
          \/ TxCommit(p)
          \/ TxCommitError(p)
          \/ TxDone(p)

SpecStore == Init /\ [][NextStore]_vars

\* C32: no step leaves the Store handle marked as in a transaction; a
\* Transaction call on it never returns ErrNestedTransaction, whatever the
\* other task is doing: it enters its callback with a transaction of its own,
\* or returns the error of Begin; and a step of one task (a statement, a
\* commit, a rollback) touches no other task's transaction.
C32_StoreTransactionsIndependent ==
    [][/\ ~InTransaction(PoolHandle)'
       /\ \A p \in Handlers :
             /\ (pc[p] = "idle" /\ pc'[p] # "idle") =>
                   /\ result'[p] \in {Pending, ErrDB}
                   /\ result'[p] = Pending =>
                         /\ pc'[p] = "t_work"
                         /\ tx'[p] = [NoTx EXCEPT !.open = TRUE]
             /\ (pc[p] = "t_ret") => result[p] # ErrNestedTransaction
             /\ tx'[p] # tx[p] => \A q \in Procs \ {p} : tx'[q] = tx[q]]_vars

\* C32 witness: h2 has entered its callback through the Store handle while the
\* callback of h1, which has written the row, is still running
C32_Witness ==
    /\ pc["h1"] = "t_work"
    /\ tx["h1"].user = 1
    /\ pc["h2"] = "t_work"
    /\ tx["h2"].open
    /\ result["h2"] = Pending

\* C32 witness of a later call: h1 has committed one transaction, another was
\* rolled back in h2, and h1 is in the callback of its next Transaction call
C32_WitnessLater ==
    /\ 1 \in DOMAIN users
    /\ users[1].balance = 2
    /\ result["h2"] = ErrWork
    /\ pc["h2"] = "t_ret"
    /\ pc["h1"] = "t_work"
    /\ tx["h1"] = [NoTx EXCEPT !.open = TRUE]

====
